---- MODULE Spec2Model ----
(***************************************************************************)
(* Model of the Action Handler middleware pipeline of the project:         *)
(*   middleware/common.go       Logging, Retry, Timing                      *)
(*   middleware/transaction.go  GetDBFromContext, TransactionMiddleware     *)
(*   core/core.go               ActionHandler, AttachDataToContext,         *)
(*                              GetDataFromContext (Context Data Carrier)   *)
(*                                                                         *)
(* A composed handler is a chain of middleware layers, outermost first,    *)
(* around an innermost Action Handler.  Every request runs the chain       *)
(* synchronously on its own call stack; several requests interleave.       *)
(*                                                                         *)
(* db.Transaction is the unit of work of the storage layer: it opens a     *)
(* unit on the handle it is called on, runs the callback, rolls the unit   *)
(* back and returns the callback's error when the callback returns one     *)
(* (the outcome of the rollback itself is discarded), and otherwise        *)
(* commits and returns the commit's error, rolling back after a failed    *)
(* commit.  Opening the unit is taken to succeed; commit and rollback may  *)
(* each fail.                                                              *)
(***************************************************************************)
EXTENDS Integers, Sequences, FiniteSets, TLC

\* Largest retry count given to Retry when a chain is composed.
MaxAttempt == 2
\* Largest number of middleware layers in a composed chain.
MaxDepth == 2
\* Most contexts a caller derives before it calls the handler.
MaxCtx == 1
\* Most invocations of the innermost handler that one call of a chain can
\* make: the product of the retry counts of its Retry layers.
MaxCalls == 4
\* Most type nodes (kinds, nested) in a type given to the schema generator.
MaxTypeSize == 3
\* Most descriptors added to a registry.
MaxReg == 2
\* The retry count of the wiring example.
WiringAttempt == 3

Reqs == {"r1", "r2"}

----------------------------------------------------------------------------
(* Values *)

\* Go's nil, as a response pointer or as an error.
NIL == [k |-> "nil", n |-> 0]
\* The response built by the n-th invocation of the innermost handler.
Resp(n) == [k |-> "resp", n |-> n]
\* The error returned by the n-th invocation of the innermost handler.
HErr(n) == [k |-> "herr", n |-> n]
\* The error of the failed commit of unit u.
CommitErr(u) == [k |-> "commit", n |-> u]
\* No value returned yet.
NoRet == [resp |-> [k |-> "none", n |-> 0], err |-> [k |-> "none", n |-> 0]]
\* The request value of request r, and
\* no request.
RequestOf(r) == [of |-> r]
NoReq == [of |-> "none"]
\* Printed text: how it was formatted and what from.
Text(form, of) == [form |-> form, of |-> of]
NoText == Text("none", "")
\* The error of a json.Marshal that failed.
MarshalErr == [k |-> "marshal", n |-> 0]

\* const GormDBKey core.ContextKey = "GORM_DB"
GormDBKey == "GORM_DB"
\* A key of another subsystem.
OtherKey == "OTHER"
Keys == {GormDBKey, OtherKey}

\* The *gorm.DB handle the middleware and the gateways are built with.
BaseDB == [t |-> "DB", id |-> 0]
\* The transactional handle of unit u.
TxHandle(u) == [t |-> "DB", id |-> u]
\* A handle the caller's context may already carry.
AmbientDB == [t |-> "DB", id |-> 0 - 1]
\* A value of another type.
StrVal == [t |-> "string", id |-> 0]
CarrierVals == {AmbientDB, StrVal}
Defaults == {BaseDB, StrVal}

----------------------------------------------------------------------------
(* Context Data Carrier (core/core.go).  Contexts are objects: a context   *)
(* is the index of its node in heap, and a node holds one binding and the  *)
(* context it was derived from.  Node 1 is context.Background().           *)

Node(parent, key, val, by) == [parent |-> parent, key |-> key, val |-> val, by |-> by]

Background == 1
\* A context of the caller that already carries a handle.
Ambient == 2

InitHeap == <<Node(0, "ROOT", StrVal, "caller"),
              Node(Background, GormDBKey, AmbientDB, "caller")>>

\* Attach returns a derived context and leaves the one it is given alone:
\* the new heap and the new context.
AttachDataToContext(h, ctx, key, value, by) ==
  [heap |-> Append(h, Node(ctx, key, value, by)), ctx |-> Len(h) + 1]

\* The nearest node binding key on ctx or an ancestor, or 0.
RECURSIVE Lookup(_, _, _)
Lookup(h, ctx, key) ==
  IF ctx = 0 THEN 0
  ELSE IF h[ctx].key = key THEN ctx
  ELSE Lookup(h, h[ctx].parent, key)

\* Get returns the attached value when present and of the type of the
\* default, else the default.
GetDataFromContext(h, ctx, key, default) ==
  LET i == Lookup(h, ctx, key) IN
  IF i # 0 /\ h[i].val.t = default.t THEN h[i].val ELSE default

GetDBFromContext_IgnoresCtx(h, ctx, db) == db

\* return core.GetDataFromContext(ctx, GormDBKey, db)
GetDBFromContext(h, ctx, db) == GetDataFromContext(h, ctx, GormDBKey, db)

----------------------------------------------------------------------------
(* Chains *)

\* A layer: its kind, the retry count of Retry and the label of Timing.
LoggingL == [kind |-> "Logging", attempt |-> 0, label |-> ""]
TimingAs(label) == [kind |-> "Timing", attempt |-> 0, label |-> label]
TimingL == TimingAs("")
TxL == [kind |-> "Tx", attempt |-> 0, label |-> ""]
RetryL(n) == [kind |-> "Retry", attempt |-> n, label |-> ""]
HandlerL == [kind |-> "Handler", attempt |-> 0, label |-> ""]

\* Retry takes any int as its count: the counts tried go down to
\* -MaxNegative.
MaxNegative == 1

Layers == {LoggingL, TimingL, TxL} \cup {RetryL(n) : n \in -MaxNegative..MaxAttempt}

RECURSIVE ChainsOfLen(_)
ChainsOfLen(d) ==
  IF d = 0 THEN {<< >>}
  ELSE {Append(c, l) : c \in ChainsOfLen(d - 1), l \in Layers}

\* The most invocations of the innermost handler one call of chain c makes:
\* each Retry layer calls what it wraps at least once and at most attempt
\* times per call.
RECURSIVE MostCalls(_)
MostCalls(c) ==
  IF c = << >> THEN 1
  ELSE (IF Head(c).kind = "Retry" /\ Head(c).attempt > 1 THEN Head(c).attempt ELSE 1)
         * MostCalls(Tail(c))

Chains ==
  {c \in UNION {ChainsOfLen(d) : d \in 0..MaxDepth} : MostCalls(c) <= MaxCalls}

\* createUserWithRetry of the wiring example, outermost first.
WiringChain == <<RetryL(WiringAttempt), TxL, TimingAs("CreateUser"), LoggingL>>

HasKind(c, kind) == \E i \in 1..Len(c) : c[i].kind = kind

----------------------------------------------------------------------------
(* utils/printer_http_api.go: the schema generator.  A string is the       *)
(* sequence of its characters.  A type is what reflect.Type tells of it:   *)
(* its kind, its element type (at most one) and its fields.                *)

\* strings.Split(s, sep) for a separator of one character.
RECURSIVE Split(_, _)
Split(s, sep) ==
  LET at == {i \in 1..Len(s) : s[i] = sep} IN
  IF at = {} THEN <<s>>
  ELSE LET i == CHOOSE i \in at : \A j \in at : i <= j
       IN <<SubSeq(s, 1, i - 1)>> \o Split(SubSeq(s, i + 1, Len(s)), sep)

IntKinds == {"Int", "Int8", "Int16", "Int32", "Int64"}
UintKinds == {"Uint", "Uint8", "Uint16", "Uint32", "Uint64", "Uintptr"}
FloatKinds == {"Float32", "Float64"}
ComplexKinds == {"Complex64", "Complex128"}
\* The kinds of reflect.Kind that the generator takes as they are.
OpaqueKinds == {"Map", "Interface", "Func", "Chan", "UnsafePointer"}
LeafKinds ==
  {"String", "Bool"} \cup IntKinds \cup UintKinds \cup FloatKinds
    \cup ComplexKinds \cup OpaqueKinds

Leaf(kind) == [kind |-> kind, elem |-> << >>, fields |-> << >>]
SliceOf(e) == [kind |-> "Slice", elem |-> <<e>>, fields |-> << >>]
ArrayOf(e) == [kind |-> "Array", elem |-> <<e>>, fields |-> << >>]
PtrTo(e) == [kind |-> "Ptr", elem |-> <<e>>, fields |-> << >>]
StructOf(fields) == [kind |-> "Struct", elem |-> << >>, fields |-> fields]
\* The record type that encloses a field, where a field's type refers back
\* to it.
Self == Leaf("Self")
\* A field: its declared name, the value of its json tag ("" when it has
\* none) and its type.
Field(name, tag, type) == [name |-> name, tag |-> tag, type |-> type]

\* The goroutine's stack is exhausted: the program dies.
Crash == [type |-> "!stack overflow"]
\* Nested calls of generateSchema the stack has room for.
StackLimit == MaxTypeSize + 2

PrimitiveType_NoDefault(kind) ==
  CASE kind = "String" -> "string"
    [] kind \in IntKinds -> "integer"
    [] kind \in FloatKinds -> "number"
    [] kind = "Bool" -> "boolean"
    [] OTHER -> ""

\* case reflect.String ... default: schema["type"] = "object"
PrimitiveType(kind) ==
  CASE kind = "String" -> "string"
    [] kind \in IntKinds -> "integer"
    [] kind \in FloatKinds -> "number"
    [] kind = "Bool" -> "boolean"
    [] OTHER -> "object"

\* jsonTag := field.Tag.Get("json"); the field's name when that is empty;
\* then strings.Split(jsonTag, ",")[0].
JsonKey(name, tag) == Split(IF tag = << >> THEN name ELSE tag, ",")[1]

\* The schema node, Crash when a nested call died.
ObjectNode(properties) ==
  IF \E k \in DOMAIN properties : properties[k] = Crash THEN Crash
  ELSE [type |-> "object", properties |-> properties]
ArrayNode(items) ==
  IF items = Crash THEN Crash ELSE [type |-> "array", items |-> items]

RECURSIVE generateSchema(_, _, _)
RECURSIVE structProperties(_, _, _)

\* The properties map after the loop has gone through the first i fields of
\* the record type t; a later field replaces an earlier one with its key.
structProperties(t, i, depth) ==
  IF i = 0 THEN << >>
  ELSE LET field == t.fields[i]
           jsonTag == JsonKey(field.name, field.tag)
       IN (jsonTag :> generateSchema(t, field.type, depth + 1))
            @@ structProperties(t, i - 1, depth)

\* generateSchema(t) at the given depth of recursion, for a type t inside
\* the record type encl.
generateSchema(encl, type, depth) ==
  LET t == IF type = Self THEN encl ELSE type IN
  IF depth > StackLimit THEN Crash
  ELSE CASE t.kind = "Struct" -> ObjectNode(structProperties(t, Len(t.fields), depth))
         [] t.kind = "Slice" -> ArrayNode(generateSchema(encl, t.elem[1], depth + 1))
         [] t.kind = "Ptr" -> generateSchema(encl, t.elem[1], depth + 1)
         [] OTHER -> [type |-> PrimitiveType(t.kind)]

\* generateBodySchema(body): generateSchema(reflect.TypeOf(body)).
generateBodySchema(t) == generateSchema(t, t, 0)

\* Field declarations: a name with its json tag.
Str_Email == <<"E", "m", "a", "i", "l">>
Str_Name == <<"N", "a", "m", "e">>
Str_Age == <<"A", "g", "e">>
Str_Note == <<"N", "o", "t", "e">>
Str_name == <<"n", "a", "m", "e">>
Str_age == <<"a", "g", "e">>
Str_omitempty == <<"o", "m", "i", "t", "e", "m", "p", "t", "y">>

FieldDecls ==
  {[name |-> Str_Email, tag |-> << >>],
   [name |-> Str_Name, tag |-> Str_name],
   [name |-> Str_Age, tag |-> Str_age \o <<",">> \o Str_omitempty],
   [name |-> Str_Note, tag |-> <<",">> \o Str_omitempty]}

\* The types given to a field added to a record: one kind for each case of
\* the generator, and references back to the record.
FieldTypes ==
  {Leaf("String"), Leaf("Int64"), Leaf("Uint8"), Leaf("Float64"), Leaf("Bool"),
   Leaf("Map"), PtrTo(Leaf("String")), PtrTo(Self), SliceOf(Self)}

\* No type, no schema.
NoGen == [t |-> Leaf("Invalid"), size |-> 0, done |-> FALSE, schema |-> [type |-> ""]]

----------------------------------------------------------------------------
(* utils/printer_http_api.go, utils/printer_mqtt_topic.go: the endpoint    *)
(* registry and the document generated from it.  Maps with keys made at    *)
(* run time (URLs, methods, status codes) are functions on strings.        *)

Upper == <<"A", "B", "C", "D", "E", "F", "G", "H", "I", "J", "K", "L", "M",
           "N", "O", "P", "Q", "R", "S", "T", "U", "V", "W", "X", "Y", "Z">>
Lower == <<"a", "b", "c", "d", "e", "f", "g", "h", "i", "j", "k", "l", "m",
           "n", "o", "p", "q", "r", "s", "t", "u", "v", "w", "x", "y", "z">>
Digits == <<"0", "1", "2", "3", "4", "5", "6", "7", "8", "9">>
\* The characters used, in the order of their codes.
Chars == <<" ", "+", ",", "-", "/">> \o Digits \o Upper \o Lower \o <<"{", "}">>

Code(c) == CHOOSE i \in 1..Len(Chars) : Chars[i] = c

ToLowerChar(c) ==
  IF \E i \in 1..Len(Upper) : Upper[i] = c
  THEN Lower[CHOOSE i \in 1..Len(Upper) : Upper[i] = c] ELSE c
ToUpperChar(c) ==
  IF \E i \in 1..Len(Lower) : Lower[i] = c
  THEN Upper[CHOOSE i \in 1..Len(Lower) : Lower[i] = c] ELSE c

\* strings.ToLower, strings.ToUpper
ToLower(s) == [i \in 1..Len(s) |-> ToLowerChar(s[i])]
ToUpper(s) == [i \in 1..Len(s) |-> ToUpperChar(s[i])]

\* strings.HasPrefix, strings.HasSuffix for one character.
HasPrefix(s, c) == Len(s) >= 1 /\ s[1] = c
HasSuffix(s, c) == Len(s) >= 1 /\ s[Len(s)] = c

\* strings.Trim(s, cutset): s without its leading and trailing characters
\* of cutset.
Trim(s, cutset) ==
  LET keep == {i \in 1..Len(s) : s[i] \notin cutset} IN
  IF keep = {} THEN << >>
  ELSE SubSeq(s, CHOOSE i \in keep : \A j \in keep : i <= j,
                 CHOOSE i \in keep : \A j \in keep : j <= i)

\* fmt.Sprintf("%d", n) for n >= 0.
RECURSIVE Itoa(_)
Itoa(n) == IF n < 10 THEN <<Digits[n + 1]>> ELSE Append(Itoa(n \div 10), Digits[(n % 10) + 1])

\* a < b as strings.
RECURSIVE StrLess(_, _)
StrLess(a, b) ==
  IF a = << >> THEN b # << >>
  ELSE IF b = << >> THEN FALSE
  ELSE IF Head(a) = Head(b) THEN StrLess(Tail(a), Tail(b))
  ELSE Code(Head(a)) < Code(Head(b))

\* The strings of the set S in increasing order: the order in which
\* yaml.Marshal writes the keys of a map.
RECURSIVE SortedKeys(_)
SortedKeys(S) ==
  IF S = {} THEN << >>
  ELSE LET m == CHOOSE a \in S : \A b \in S \ {a} : StrLess(a, b)
       IN <<m>> \o SortedKeys(S \ {m})

\* An optional entry of a map.
Opt(present, entry) == IF present THEN entry ELSE << >>

PathParamName_KeepsBraces(part) == part

\* paramName := strings.Trim(part, "{}")
PathParamName(part) == Trim(part, {"{", "}"})

\* The path parameters of a URL template, in URL order.
RECURSIVE PathParamsOf(_)
PathParamsOf(parts) ==
  IF parts = << >> THEN << >>
  ELSE LET part == Head(parts) IN
       (IF HasPrefix(part, "{") /\ HasSuffix(part, "}")
        THEN <<[name |-> PathParamName(part), in |-> "path", required |-> TRUE,
                schema |-> [type |-> "string"]]>>
        ELSE << >>)
         \o PathParamsOf(Tail(parts))

QueryParamOf_AlwaysRequired(param) ==
  [name |-> param.name, in |-> "query", description |-> param.description,
   required |-> TRUE, schema |-> [type |-> param.type]]

QueryParamOf(param) ==
  [name |-> param.name, in |-> "query", description |-> param.description,
   required |-> param.required, schema |-> [type |-> param.type]]

\* generateMultipartFormSchema: a later parameter replaces an earlier one
\* of its name.
RECURSIVE generateMultipartFormSchema(_)
generateMultipartFormSchema(params) ==
  IF params = << >> THEN << >>
  ELSE LET param == params[Len(params)]
           rest == generateMultipartFormSchema(SubSeq(params, 1, Len(params) - 1))
       IN (param.name :>
             IF param.type = "file"
             THEN [type |-> "array", items |-> [type |-> "string", format |-> "binary"],
                   description |-> param.description]
             ELSE [type |-> param.type, description |-> param.description])
            @@ rest

\* The responses of an operation after the loop over the first i examples.
RECURSIVE ExampleResponses(_, _)
ExampleResponses(examples, i) ==
  IF i = 0 THEN << >>
  ELSE LET statusCode == Itoa(examples[i].statusCode) IN
       (statusCode :>
          [description |-> <<"Status ", statusCode, " response">>,
           content |-> ("application/json" :> [example |-> examples[i].content])])
         @@ ExampleResponses(examples, i - 1)

Responses_DefaultAlways(endpoint) ==
  ExampleResponses(endpoint.examples, Len(endpoint.examples))
    @@ (Itoa(200) :> [description |-> "Successful operation"])

Responses(endpoint) ==
  IF Len(endpoint.examples) = 0
  THEN Itoa(200) :> [description |-> "Successful operation"]
  ELSE ExampleResponses(endpoint.examples, Len(endpoint.examples))

NoBody == Leaf("Invalid")
NoStr == << >>

RequestBody_CaseSensitive(endpoint, method) ==
  IF Len(endpoint.multipart) > 0
  THEN <<[content |-> ("multipart/form-data" :>
            [schema |-> [type |-> "object",
                         properties |-> generateMultipartFormSchema(endpoint.multipart)]])]>>
  ELSE IF endpoint.body # NoBody /\ endpoint.method # <<"g", "e", "t">>
  THEN <<[content |-> ("application/json" :>
            [schema |-> generateBodySchema(endpoint.body)])]>>
  ELSE << >>

\* The request body of an operation, none when absent.
RequestBody(endpoint, method) ==
  IF Len(endpoint.multipart) > 0
  THEN <<[content |-> ("multipart/form-data" :>
            [schema |-> [type |-> "object",
                         properties |-> generateMultipartFormSchema(endpoint.multipart)]])]>>
  ELSE IF endpoint.body # NoBody /\ method # <<"g", "e", "t">>
  THEN <<[content |-> ("application/json" :>
            [schema |-> generateBodySchema(endpoint.body)])]>>
  ELSE << >>

\* The operation object of one endpoint.
Operation(endpoint) ==
  LET path == endpoint.url
      method == ToLower(endpoint.method)
      pathParams == PathParamsOf(Split(path, "/"))
      parameters == pathParams \o [i \in 1..Len(endpoint.queryParams) |->
                                     QueryParamOf(endpoint.queryParams[i])]
      body == RequestBody(endpoint, method)
  IN ("responses" :> Responses(endpoint))
       @@ ("summary" :> IF endpoint.summary # NoStr THEN endpoint.summary
                        ELSE ToUpper(method) \o <<" ">> \o path)
       @@ Opt(endpoint.description # NoStr, "description" :> endpoint.description)
       @@ Opt(endpoint.tag # NoStr, "tags" :> <<endpoint.tag>>)
       @@ Opt(Len(parameters) > 0, "parameters" :> parameters)
       @@ Opt(body # << >>, "requestBody" :> body[1])

PathItemOf_Fresh(paths, path) == << >>

\* pathItem, ok := schema.Paths[path].(map[string]any): the path item
\* already there, or a new one.
PathItemOf(paths, path) == IF path \in DOMAIN paths THEN paths[path] ELSE << >>

\* schema.Paths after the loop over the first i endpoints: a later
\* endpoint replaces the operation of an earlier one with its URL and
\* lowercased method.
RECURSIVE Paths(_, _)
Paths(urls, i) ==
  IF i = 0 THEN << >>
  ELSE LET before == Paths(urls, i - 1)
           path == urls[i].url
           method == ToLower(urls[i].method)
           pathItem == PathItemOf(before, path)
       IN (path :> ((method :> Operation(urls[i])) @@ pathItem)) @@ before

\* The tags of the endpoints that have one.
UniqueTags(urls) == {urls[i].tag : i \in {j \in 1..Len(urls) : urls[j].tag # NoStr}}

\* An endpoint's body type makes the schema generator die.
BodyCrashes(endpoint) ==
  /\ Len(endpoint.multipart) = 0
  /\ endpoint.body # NoBody
  /\ ToLower(endpoint.method) # <<"g", "e", "t">>
  /\ generateBodySchema(endpoint.body) = Crash

\* generateOpenAPISchema(baseURL) on the registry urls; tagOrder is the
\* order in which the loop over the map uniqueTags meets the tags.
generateOpenAPISchema(urls, baseURL, tagOrder) ==
  IF \E i \in 1..Len(urls) : BodyCrashes(urls[i]) THEN [openapi |-> "!stack overflow"]
  ELSE [openapi |-> "3.0.0",
        info |-> [title |-> "IAM API", version |-> "1.0.0"],
        servers |-> <<[url |-> baseURL, description |-> "API server"]>>,
        paths |-> Paths(urls, Len(urls)),
        components |-> [securitySchemes |-> [bearerAuth |->
                          [type |-> "http", scheme |-> "bearer", bearerFormat |-> "JWT"]]],
        tags |-> [i \in 1..Len(tagOrder) |-> [name |-> tagOrder[i]]]]

\* The operations of a document in the order in which yaml.Marshal(obj)
\* writes them: the keys of paths in increasing order and, under each path,
\* the methods in increasing order.
RECURSIVE ListOperations(_, _)
ListOperations(paths, keys) ==
  IF keys = << >> THEN << >>
  ELSE LET path == Head(keys)
           methods == SortedKeys(DOMAIN paths[path])
       IN [i \in 1..Len(methods) |-> [method |-> methods[i], path |-> path]]
            \o ListOperations(paths, Tail(keys))

DocListing(doc) ==
  IF "paths" \in DOMAIN doc THEN ListOperations(doc.paths, SortedKeys(DOMAIN doc.paths))
  ELSE << >>

\* No document generated yet.
NoDoc == [openapi |-> ""]

\* A value whose MarshalYAML returns an error.
Failing == [marshalYAML |-> "error"]

\* yaml.Marshal returns an error: an example payload cannot be serialized.
YamlFails(obj) ==
  \E path \in DOMAIN obj.paths : \E method \in DOMAIN obj.paths[path] :
    LET responses == obj.paths[path][method].responses IN
    \E code \in DOMAIN responses :
      /\ "content" \in DOMAIN responses[code]
      /\ responses[code].content["application/json"].example = Failing

\* yaml.Marshal(&obj): the fields of the struct in declaration order, the
\* entries of the maps paths and of each path item in increasing key order.
YamlMarshal(obj) ==
  LET paths == SortedKeys(DOMAIN obj.paths)
      item(path) ==
        LET methods == SortedKeys(DOMAIN obj.paths[path])
        IN [j \in 1..Len(methods) |-> <<methods[j], obj.paths[path][methods[j]]>>]
  IN <<<<"openapi", obj.openapi>>, <<"info", obj.info>>, <<"servers", obj.servers>>,
       <<"paths", [i \in 1..Len(paths) |-> <<paths[i], item(paths[i])>>]>>,
       <<"components", obj.components>>, <<"tags", obj.tags>>>>

\* What a request got: nothing yet asked (none), a response, or nothing
\* because the process died (dropped).
Response(status, contentType, body) ==
  [got |-> "response", status |-> status, contentType |-> contentType, body |-> body]
NoResp == [Response(0, "", << >>) EXCEPT !.got = "none"]
Dropped == [Response(0, "", << >>) EXCEPT !.got = "dropped"]

\* The handler of PublishAPI on the registry urls it captured.
ServeDoc(obj) ==
  IF obj.openapi = "!stack overflow" THEN Dropped
  ELSE IF YamlFails(obj)
  THEN Response(500, "text/plain; charset=utf-8", <<"Error creating YAML">>)
  ELSE Response(200, "text/yaml", YamlMarshal(obj))

GenerateMQTTTopicSchema_WithHandler(topics) ==
  <<<<"mqtt_topics",
      [i \in 1..Len(topics) |->
         <<<<"description", topics[i].description>>,
           <<"handler_type", topics[i].handlerType>>,
           <<"subscription", topics[i].subscription>>,
           <<"tag", topics[i].tag>>,
           <<"topic", topics[i].topic>>>>]>>>>

\* json.MarshalIndent of a map: its entries in increasing key order.
\* GenerateMQTTTopicSchema: one object per topic of the registry.
GenerateMQTTTopicSchema(topics) ==
  <<<<"mqtt_topics",
      [i \in 1..Len(topics) |->
         <<<<"description", topics[i].description>>,
           <<"subscription", topics[i].subscription>>,
           <<"tag", topics[i].tag>>,
           <<"topic", topics[i].topic>>>>]>>>>

\* The descriptors registered: the scenario of the specification and the
\* controllers of the guidelines.
Str_POST == <<"P", "O", "S", "T">>
Str_email == <<"e", "m", "a", "i", "l">>
Url_User ==
  <<"/", "a", "p", "i", "/", "u", "s", "e", "r", "s", "/", "{", "i", "d", "}">>
Url_UserId ==
  <<"/", "a", "p", "i", "/", "u", "s", "e", "r", "s", "/",
    "{", "u", "s", "e", "r", "I", "d", "}">>
Str_UserManagement ==
  <<"U", "s", "e", "r", " ", "M", "a", "n", "a", "g", "e", "m", "e", "n",
    "t">>

\* struct{Email string; Name string}
PlainUser ==
  StructOf(<<Field(Str_Email, << >>, Leaf("String")),
             Field(Str_Name, << >>, Leaf("String"))>>)
\* type CreateUserReq struct { Email string `json:"email"`; Name string `json:"name"` }
CreateUserReq ==
  StructOf(<<Field(Str_Email, Str_email, Leaf("String")),
             Field(Str_Name, Str_name, Leaf("String"))>>)

Success == [status |-> "success"]

APIData(method, url, body, queryParams, summary, tag, examples) ==
  [method |-> method, url |-> url, body |-> body, queryParams |-> queryParams,
   summary |-> summary, description |-> NoStr, tag |-> tag, examples |-> examples,
   multipart |-> << >>]

Ep_Scenario ==
  APIData(Str_POST, Url_User, PlainUser, << >>, NoStr, NoStr,
          <<[statusCode |-> 200, content |-> Success]>>)
Ep_CreateUser ==
  APIData(Str_POST, Url_User, CreateUserReq, << >>,
          <<"C", "r", "e", "a", "t", "e", " ", "a", " ", "n", "e", "w", " ",
            "u", "s", "e", "r">>,
          Str_UserManagement, << >>)
Ep_GetUser ==
  APIData(<<"G", "E", "T">>, Url_UserId, NoBody,
          <<[name |-> "include", type |-> "string",
             description |-> "Comma-separated list of related resources to include",
             required |-> FALSE]>>,
          <<"G", "e", "t", " ", "u", "s", "e", "r", " ", "d", "e", "t", "a", "i",
            "l", "s">>,
          Str_UserManagement, << >>)

Endpoints == {Ep_Scenario, Ep_CreateUser, Ep_GetUser}

\* Descriptors of every shape the generator distinguishes: the three above
\* and, in this order, a Get with a body type and no parameter; a
\* lowercase method on the URL of the scenario, with the examples 200, 400
\* and 200 again; multipart parameters beside a body type; a body type
\* that refers to itself (type Node struct { Next *Node }); two path
\* segments and two query parameters; an example that cannot be
\* serialized.
Descriptors ==
  LET users == <<"/", "a", "p", "i", "/", "u", "s", "e", "r", "s">>
      limit == [name |-> "limit", type |-> "integer",
                description |-> "Page size", required |-> TRUE]
  IN Endpoints \cup
     {[Ep_GetUser EXCEPT !.method = <<"G", "e", "t">>, !.url = users,
                         !.body = PlainUser, !.queryParams = << >>,
                         !.summary = NoStr, !.tag = <<"U", "s", "e", "r", "s">>],
      [Ep_Scenario EXCEPT !.method = <<"p", "o", "s", "t">>, !.body = NoBody,
                          !.examples = <<[statusCode |-> 200, content |-> Success],
                                         [statusCode |-> 400,
                                          content |-> [status |-> "failed"]],
                                         [statusCode |-> 200,
                                          content |-> [status |-> "created"]]>>],
      [Ep_Scenario EXCEPT !.url = users, !.examples = << >>,
                          !.multipart = <<[name |-> "avatar", type |-> "file",
                                           description |-> "Profile picture",
                                           required |-> TRUE],
                                          [name |-> "caption", type |-> "string",
                                           description |-> "", required |-> FALSE]>>],
      [Ep_CreateUser EXCEPT
         !.body = StructOf(<<Field(<<"N", "e", "x", "t">>, << >>, PtrTo(Self))>>)],
      [Ep_GetUser EXCEPT !.url = Url_User \o <<"/", "{", "r", "}">>,
                         !.body = CreateUserReq, !.queryParams = @ \o <<limit>>],
      [Ep_GetUser EXCEPT !.examples = <<[statusCode |-> 500, content |-> Failing]>>]}

MQTTTopicData(topic, tag, handlerType) ==
  [topic |-> topic, description |-> "", tag |-> tag, handlerType |-> handlerType,
   subscription |-> TRUE]

TopicChoices ==
  {MQTTTopicData("devices/+/heartbeat", "Device", "heartbeat"),
   MQTTTopicData("nms/agents/+/heartbeat", "Agent", "heartbeat")}

BaseURL == "http://localhost:8080"

\* The two registries, empty, with nothing printed or generated: the
\* registries (urls, topics), what Add returned last, the printed listing
\* and the generated document; added, listed and seen remember the
\* descriptors given to Add and the registry that was printed and read.
\* alive: the process runs; published, pub: PublishAPI was called, and the
\* registry its handler captured; prev, resp: what the last two requests
\* to the document endpoint got; tpublished, tpub, tresp: the same for
\* PublishMQTTTopicSchema.
NoApi ==
  [urls |-> << >>, topics |-> << >>, ret |-> "none",
   out |-> << >>, doc |-> NoDoc,
   added |-> << >>, topicsAdded |-> << >>, printed |-> FALSE, listed |-> << >>,
   seen |-> << >>,
   alive |-> TRUE, published |-> FALSE, pub |-> << >>, prev |-> NoResp, resp |-> NoResp,
   tpublished |-> FALSE, tpub |-> << >>, tresp |-> NoResp]

VARIABLES
  chain,      \* the composed handler: its layers, outermost first
  marshal,    \* whether json.Marshal succeeds on the request / response type
  cancelled,  \* the contexts whose cancel function has been called
  gen,        \* the type given to the schema generator and its schema
  api,        \* the endpoint and topic registries and what was made of them
  pc,         \* per request: "absent", "idle", "running", "done"
  callerCtx,  \* per request: the context the caller passes
  stack,      \* per request: the call stack of the chain
  ret,        \* per request: the pair just returned to the top frame
  heap,       \* the context objects
  units,      \* the units of work opened so far
  direct,     \* writes made through a handle that is no open unit
  log,        \* per request: its clock, its invocation count, the handle
              \* the caller's context carried at the call and the calls
              \* that have returned, in order of return
  cgot        \* the caller's last use of the carrier and its result

vars == <<chain, marshal, cancelled, gen, api, pc, callerCtx, stack, ret, heap, units, direct, log, cgot>>

----------------------------------------------------------------------------
(* Helpers on the call stack *)

Top(r) == stack[r][Len(stack[r])]
Depth(r) == Len(stack[r])
LayerAt(i) == IF i <= Len(chain) THEN chain[i] ELSE HandlerL

\* The frame of a call of layer i with (ctx, req) made at time id by the
\* frame parent; tr is what the frame has done so far.
Frame(i, ctx, req, id, parent) ==
  [kind |-> LayerAt(i).kind, attempt |-> LayerAt(i).attempt,
   label |-> LayerAt(i).label, pc |-> "enter",
   ctx |-> ctx, req |-> req, count |-> 0, unit |-> 0, d |-> i, id |-> id,
   parent |-> parent, tr |-> << >>, out |-> NoRet]

At(r, kind, where) ==
  /\ pc[r] = "running"
  /\ Depth(r) > 0
  /\ Top(r).kind = kind
  /\ Top(r).pc = where
  /\ (where = "wait") => ret[r] # NoRet

Pair(resp, err) == [resp |-> resp, err |-> err]

\* One step of a frame, stamped with the request's clock when it is recorded.
Ev(ev, u, n, ctx, h, ok, out) ==
  [ev |-> ev, t |-> 0, u |-> u, n |-> n, ctx |-> ctx, h |-> h, ok |-> ok, out |-> out,
   req |-> NoReq, text |-> NoText]

\* ctx.Err() != nil: ctx or a context it was derived from, in the heap h,
\* is cancelled.
RECURSIVE CtxDone(_, _)
CtxDone(h, ctx) ==
  IF ctx = 0 THEN FALSE
  ELSE ctx \in cancelled \/ CtxDone(h, h[ctx].parent)

\* The step of calling the wrapped handler with (ctx, req), ok while ctx is
\* not cancelled, and a step that prints text.
CallEv(h, ctx, req) ==
  [Ev("call", 0, 0, ctx, BaseDB, ~CtxDone(h, ctx), NoRet) EXCEPT !.req = req]
PrintEv(ev, text, out) == [Ev(ev, 0, 0, 0, BaseDB, TRUE, out) EXCEPT !.text = text]

Stamp(evs, c) == [k \in 1..Len(evs) |-> [evs[k] EXCEPT !.t = c + k]]

\* The top frame, changed to f, does evs and calls the next layer with
\* (ctx, req), ctx a context of the heap h.
CallInnerIn(h, r, f, ctx, req, evs) ==
  LET own == Stamp(evs \o <<CallEv(h, ctx, req)>>, log[r].t)
      now == log[r].t + Len(own)
  IN /\ stack' = [stack EXCEPT
          ![r] = Append(SubSeq(@, 1, Len(@) - 1)
                          \o <<[f EXCEPT !.pc = "wait", !.tr = @ \o own]>>,
                        Frame(Len(@) + 1, ctx, req, now, f.id))]
     /\ ret' = [ret EXCEPT ![r] = NoRet]
     /\ log' = [log EXCEPT ![r].t = now]

CallInner(r, f, ctx, req, evs) == CallInnerIn(heap, r, f, ctx, req, evs)

\* The record of the call of frame f that did own and returned out.
CallRecord(f, own, out) == [f EXCEPT !.pc = "returned", !.tr = own, !.out = out]

\* The top frame does evs and returns (resp, err) to its caller.
Return(r, resp, err, evs) ==
  LET f == Top(r)
      out == Pair(resp, err)
      own == f.tr \o Stamp(evs \o <<Ev("return", 0, 0, 0, BaseDB, TRUE, out)>>, log[r].t)
      now == log[r].t + Len(evs) + 1
      rest == SubSeq(stack[r], 1, Len(stack[r]) - 1)
      got == [Ev("ret", 0, 0, 0, BaseDB, TRUE, out) EXCEPT !.t = now]
  IN /\ stack' = [stack EXCEPT ![r] =
          IF rest = << >> THEN rest
          ELSE [rest EXCEPT ![Len(rest)].tr = Append(@, got)]]
     /\ ret' = [ret EXCEPT ![r] = out]
     /\ log' = [log EXCEPT ![r] =
          [@ EXCEPT !.t = now,
                    !.n = @ + Cardinality({k \in 1..Len(evs) : evs[k].ev = "invoke"}),
                    !.done = Append(@, CallRecord(f, own, out))]]

Invocations(r) == log[r].n

----------------------------------------------------------------------------
(* Init *)

\* No request has been made yet.
InitRequests ==
  /\ cancelled = {}
  /\ callerCtx = [r \in Reqs |-> 0]
  /\ stack = [r \in Reqs |-> << >>]
  /\ ret = [r \in Reqs |-> NoRet]
  /\ heap = InitHeap
  /\ units = << >>
  /\ direct = {}
  /\ log = [r \in Reqs |-> [t |-> 0, n |-> 0, h0 |-> BaseDB, done |-> << >>]]
  /\ cgot = [op |-> "none", ctx |-> 0, key |-> GormDBKey, val |-> BaseDB, res |-> BaseDB]

InitCommon ==
  /\ gen = NoGen
  /\ api = NoApi
  /\ InitRequests

\* One request through any chain; only Logging serializes what it is given.
Init ==
  /\ chain \in Chains \cup {WiringChain}
  /\ marshal \in [req : BOOLEAN, resp : BOOLEAN]
  /\ (~HasKind(chain, "Logging")) => marshal = [req |-> TRUE, resp |-> TRUE]
  /\ pc = [r \in Reqs |-> IF r = "r1" THEN "idle" ELSE "absent"]
  /\ InitCommon

\* Chains of Logging and Timing layers only.
PassLayers == {LoggingL, TimingL, TimingAs("CreateUser")}
PassChains == UNION {[1..d -> PassLayers] : d \in 1..MaxDepth}

\* One request through a chain that passes results through.
InitPass ==
  /\ chain \in PassChains
  /\ marshal \in [req : BOOLEAN, resp : BOOLEAN]
  /\ pc = [r \in Reqs |-> IF r = "r1" THEN "idle" ELSE "absent"]
  /\ InitCommon

\* Chains of Retry layers only.
RetryChains ==
  {c \in Chains : c # << >> /\ \A i \in 1..Len(c) : c[i].kind = "Retry"}

\* One request through Retry layers.
InitCancel ==
  /\ chain \in RetryChains
  /\ marshal = [req |-> TRUE, resp |-> TRUE]
  /\ pc = [r \in Reqs |-> IF r = "r1" THEN "idle" ELSE "absent"]
  /\ InitCommon

\* Concurrent requests through the same composed handler.
ConcChains == {<<TxL>>, <<TxL, TxL>>, <<RetryL(2), TxL>>}

InitConc ==
  /\ chain \in ConcChains
  /\ marshal = [req |-> TRUE, resp |-> TRUE]
  /\ pc = [r \in Reqs |-> "idle"]
  /\ InitCommon

\* A caller that uses the carrier itself around a bare or a
\* Transaction-wrapped handler.
InitCarrier ==
  /\ chain \in {<< >>, <<TxL>>}
  /\ marshal = [req |-> TRUE, resp |-> TRUE]
  /\ pc = [r \in Reqs |-> IF r = "r1" THEN "idle" ELSE "absent"]
  /\ InitCommon

----------------------------------------------------------------------------
(* The caller *)

CallerNodes == {i \in 1..Len(heap) : heap[i].by = "caller"}

\* The caller derives a context: core.AttachDataToContext(ctx, key, value).
AttachStep(r) ==
  /\ pc[r] = "idle"
  /\ Cardinality(CallerNodes) < Len(InitHeap) + MaxCtx
  /\ \E ctx \in CallerNodes, key \in Keys, val \in CarrierVals :
       LET a == AttachDataToContext(heap, ctx, key, val, "caller") IN
         /\ heap' = a.heap
         /\ cgot' = [op |-> "attach", ctx |-> a.ctx, key |-> key, val |-> val, res |-> val]
  /\ UNCHANGED <<chain, marshal, cancelled, gen, api, pc, callerCtx, stack, ret, units, direct, log>>

\* The caller reads a context: core.GetDataFromContext(ctx, key, default).
GetStep(r) ==
  /\ pc[r] = "idle"
  /\ \E ctx \in CallerNodes, key \in Keys, def \in Defaults :
       cgot' = [op |-> "get", ctx |-> ctx, key |-> key, val |-> def,
                res |-> GetDataFromContext(heap, ctx, key, def)]
  /\ UNCHANGED <<chain, marshal, cancelled, gen, api, pc, callerCtx, stack, ret, heap, units, direct, log>>

\* A controller calls the composed handler: u(ctx, req).
Call(r) ==
  /\ pc[r] = "idle"
  /\ \E ctx \in CallerNodes :
       /\ callerCtx' = [callerCtx EXCEPT ![r] = ctx]
       /\ stack' = [stack EXCEPT ![r] = <<Frame(1, ctx, RequestOf(r), 1, 0)>>]
       /\ log' = [log EXCEPT ![r].t = 1,
                              ![r].h0 = GetDBFromContext(heap, ctx, BaseDB)]
  /\ pc' = [pc EXCEPT ![r] = "running"]
  /\ UNCHANGED <<chain, marshal, cancelled, gen, api, ret, heap, units, direct, cgot>>

\* The caller, or a deadline, cancels a context of the caller.
Cancel(r) ==
  /\ pc[r] \in {"idle", "running"}
  /\ \E ctx \in CallerNodes \ cancelled : cancelled' = cancelled \cup {ctx}
  /\ UNCHANGED <<chain, marshal, gen, api, pc, callerCtx, stack, ret, heap, units, direct, log, cgot>>

\* The composed handler has returned to the controller.
Finish(r) ==
  /\ pc[r] = "running"
  /\ Depth(r) = 0
  /\ ret[r] # NoRet
  /\ pc' = [pc EXCEPT ![r] = "done"]
  /\ UNCHANGED <<chain, marshal, cancelled, gen, api, callerCtx, stack, ret, heap, units, direct, log, cgot>>

----------------------------------------------------------------------------
(* The innermost Action Handler: a usecase or gateway that takes its       *)
(* handle with middleware.GetDBFromContext(ctx, db), writes through it and *)
(* returns (response, nil) or (nil, error).                                *)

IsOpenUnit(h) == h.id \in 1..Len(units) /\ units[h.id].status = "open"

\* What an invocation numbered n may return, by shape: the Action Handler
\* invariant allows "resp" and "err" only, the Go type all four.
Outcome(shape, n) ==
  CASE shape = "resp" -> Pair(Resp(n), NIL)
    [] shape = "err" -> Pair(NIL, HErr(n))
    [] shape = "both" -> Pair(Resp(n), HErr(n))
    [] OTHER -> Pair(NIL, NIL)

Conforming == {"resp", "err"}
AnyShape == {"resp", "err", "both", "neither"}

HandlerStep(r, shapes) ==
  /\ At(r, "Handler", "enter")
  /\ LET n == Invocations(r) + 1
         h == GetDBFromContext(heap, Top(r).ctx, BaseDB)
     IN /\ IF IsOpenUnit(h)
           THEN /\ units' = [units EXCEPT ![h.id].writes = @ \cup {<<r, n>>}]
                /\ UNCHANGED direct
           ELSE /\ direct' = direct \cup {<<r, n>>}
                /\ UNCHANGED units
        /\ \E shape \in shapes :
             LET out == Outcome(shape, n) IN
             Return(r, out.resp, out.err,
                    <<[Ev("invoke", 0, n, Top(r).ctx, h, out.err = NIL, out)
                         EXCEPT !.req = Top(r).req]>>)
  /\ UNCHANGED <<chain, marshal, cancelled, gen, api, pc, callerCtx, heap, cgot>>

\* A usecase or gateway that keeps the Action Handler invariant.
HandlerInvoke(r) == HandlerStep(r, Conforming)

\* Any function of the type core.ActionHandler[R, S].
RawHandlerInvoke(r) == HandlerStep(r, AnyShape)

----------------------------------------------------------------------------
(* middleware/common.go: Logging *)

\* reqStr := fmt.Sprintf("%T", request), replaced by the JSON form when
\* json.Marshal succeeds; the same for the response when it is not nil.
Sprint(what, marshals) == IF marshals THEN Text("json", what) ELSE Text("%T", what)

\* The err of bytes, err := json.Marshal(request).
MarshalResult(marshals) == IF marshals THEN NIL ELSE MarshalErr

LoggingErr_KeepsMarshalErr(marshalErr, handlerErr) ==
  IF marshalErr # NIL THEN marshalErr ELSE handlerErr

\* response, err := actionHandler(ctx, request) assigns the err that
\* json.Marshal(request) set before.
LoggingErr(marshalErr, handlerErr) == handlerErr

LoggingEnter(r) ==
  /\ At(r, "Logging", "enter")
  /\ CallInner(r, Top(r), Top(r).ctx, Top(r).req,
               <<PrintEv("print-request", Sprint("request", marshal.req), NoRet)>>)
  /\ UNCHANGED <<chain, marshal, cancelled, gen, api, pc, callerCtx, heap, units, direct, cgot>>

LoggingReturn(r) ==
  /\ At(r, "Logging", "wait")
  /\ LET response == ret[r].resp
         err == LoggingErr(MarshalResult(marshal.req), ret[r].err)
     IN IF err # NIL
        THEN Return(r, NIL, err,
                    <<PrintEv("print-error", Text("error", "err"), ret[r]),
                      PrintEv("print-line", NoText, NoRet)>>)
        ELSE Return(r, response, NIL,
                    <<PrintEv("print-success",
                              Sprint("response", response # NIL /\ marshal.resp),
                              ret[r]),
                      PrintEv("print-line", NoText, NoRet)>>)
  /\ UNCHANGED <<chain, marshal, cancelled, gen, api, pc, callerCtx, heap, units, direct, cgot>>

----------------------------------------------------------------------------
(* middleware/common.go: Timing *)

\* What time.Since(start) may measure.
Durations == {0, 1}

TimingResult_NilOnError(response, err) ==
  IF err # NIL THEN Pair(NIL, err) ELSE Pair(response, NIL)

\* return response, err
TimingResult(response, err) == Pair(response, err)

TimingEnter(r) ==
  /\ At(r, "Timing", "enter")
  /\ CallInner(r, Top(r), Top(r).ctx, Top(r).req, << >>)
  /\ UNCHANGED <<chain, marshal, cancelled, gen, api, pc, callerCtx, heap, units, direct, cgot>>

TimingReturn(r) ==
  /\ At(r, "Timing", "wait")
  /\ \E duration \in Durations :
       LET res == TimingResult(ret[r].resp, ret[r].err) IN
       Return(r, res.resp, res.err,
              <<[PrintEv("print-took", Text("took", Top(r).label), NoRet)
                   EXCEPT !.n = duration]>>)
  /\ UNCHANGED <<chain, marshal, cancelled, gen, api, pc, callerCtx, heap, units, direct, cgot>>

----------------------------------------------------------------------------
(* middleware/common.go: Retry *)

RetryGivesUp_OnCancel(done) == done

\* The loop reads neither ctx.Done() nor ctx.Err(): a cancelled context
\* never ends it.
RetryGivesUp(done) == FALSE

RetryAgain_OffByOne(count, attempt) == count < attempt

RetryAgain_OneMore(count, attempt) == count <= attempt + 1

RetryAgain_AtLeastTwo(count, attempt) == count <= attempt \/ count <= 2

\* if count <= attempt { continue } else { return nil, err }
RetryAgain(count, attempt) == count <= attempt

RetryFailure_FirstError(first, last) == first

\* return nil, err: the error of the invocation that just failed.
RetryFailure(first, last) == last

\* count := 1, then the first pass of the loop calls the inner handler.
RetryEnter(r) ==
  /\ At(r, "Retry", "enter")
  /\ CallInner(r, [Top(r) EXCEPT !.count = 1], Top(r).ctx, Top(r).req, << >>)
  /\ UNCHANGED <<chain, marshal, cancelled, gen, api, pc, callerCtx, heap, units, direct, cgot>>

\* The error the inner handler returned to this frame on its first call.
FirstError(r) ==
  LET rs == {k \in 1..Len(Top(r).tr) : Top(r).tr[k].ev = "ret"}
  IN Top(r).tr[CHOOSE k \in rs : \A j \in rs : k <= j].out.err

\* The inner handler has returned inside the loop.
RetryReturn(r) ==
  /\ At(r, "Retry", "wait")
  /\ IF ret[r].err # NIL
     THEN LET count == Top(r).count + 1 IN
          IF RetryAgain(count, Top(r).attempt) /\ ~RetryGivesUp(CtxDone(heap, Top(r).ctx))
          THEN CallInner(r, [Top(r) EXCEPT !.count = count], Top(r).ctx, Top(r).req,
                         << >>)
          ELSE Return(r, NIL, RetryFailure(FirstError(r), ret[r].err), << >>)
     ELSE Return(r, ret[r].resp, NIL, << >>)
  /\ UNCHANGED <<chain, marshal, cancelled, gen, api, pc, callerCtx, heap, units, direct, cgot>>

----------------------------------------------------------------------------
(* middleware/transaction.go: TransactionMiddleware *)

NewUnit(r, db) == [owner |-> r, on |-> db, status |-> "open", writes |-> {}]

TxContext_Caller(h, ctx, tx, by) == [heap |-> h, ctx |-> ctx]

TxContext_InPlace(h, ctx, tx, by) ==
  [heap |-> [h EXCEPT ![ctx] = Node(h[ctx].parent, GormDBKey, tx, h[ctx].by)],
   ctx |-> ctx]

\* txCtx := core.AttachDataToContext(ctx, GormDBKey, tx)
TxContext(h, ctx, tx, by) == AttachDataToContext(h, ctx, GormDBKey, tx, by)

TxResult_KeepsResponse(result, err, txErr) ==
  Pair(result, IF txErr # NIL THEN txErr ELSE err)

TxResult_IgnoresTxErr(result, err, txErr) == Pair(result, err)

\* if txErr != nil { return nil, txErr }; return result, err
TxResult(result, err, txErr) ==
  IF txErr # NIL THEN Pair(NIL, txErr) ELSE Pair(result, err)

TxOpensOn_Context(h, ctx, db) == GetDBFromContext(h, ctx, db)

\* txErr := db.Transaction(...): the handle is the db the middleware was
\* built with; the incoming ctx is not consulted.
TxOpensOn(h, ctx, db) == db

\* db.Transaction opens the unit on db and runs the callback, which derives
\* txCtx and calls the wrapped handler.
TxBegin(r) ==
  /\ At(r, "Tx", "enter")
  /\ LET u == Len(units) + 1
         a == TxContext(heap, Top(r).ctx, TxHandle(u), r)
     IN /\ units' = Append(units, NewUnit(r, TxOpensOn(heap, Top(r).ctx, BaseDB)))
        /\ heap' = a.heap
        /\ CallInnerIn(a.heap, r, [Top(r) EXCEPT !.unit = u], a.ctx, Top(r).req,
                       <<Ev("open", u, 0, Top(r).ctx,
                            GetDBFromContext(heap, Top(r).ctx, BaseDB), TRUE, NoRet)>>)
  /\ UNCHANGED <<chain, marshal, cancelled, gen, api, pc, callerCtx, direct, cgot>>

TxCommits_Always(err) == TRUE

TxCommits_Never(err) == FALSE

\* The callback returns err when the handler failed and nil otherwise;
\* db.Transaction commits on nil and rolls back on an error.
TxCommits(err) == err = NIL

\* The callback has returned: db.Transaction commits or rolls back and
\* returns txErr, and the middleware returns.
TxEnd(r) ==
  /\ At(r, "Tx", "wait")
  /\ LET u == Top(r).unit
         result == ret[r].resp
         err == ret[r].err
     IN \E ok \in BOOLEAN :
          IF TxCommits(err)
          THEN /\ units' = [units EXCEPT ![u].status =
                              IF ok THEN "committed" ELSE "commitFailed"]
               /\ LET res == TxResult(result, err, IF ok THEN NIL ELSE CommitErr(u))
                  IN Return(r, res.resp, res.err,
                            IF ok
                            THEN <<Ev("commit", u, 0, 0, BaseDB, TRUE, ret[r])>>
                            ELSE <<Ev("commit", u, 0, 0, BaseDB, FALSE, ret[r]),
                                   Ev("rollback", u, 0, 0, BaseDB, FALSE, ret[r])>>)
          ELSE /\ units' = [units EXCEPT ![u].status =
                              IF ok THEN "rolledBack" ELSE "rollbackFailed"]
               /\ LET res == TxResult(result, err, err)
                  IN Return(r, res.resp, res.err,
                            <<Ev("rollback", u, 0, 0, BaseDB, ok, ret[r])>>)
  /\ UNCHANGED <<chain, marshal, cancelled, gen, api, pc, callerCtx, heap, direct, cgot>>

----------------------------------------------------------------------------
(* The schema generator's caller: a Request or Response type is declared   *)
(* and generateBodySchema is applied to it.                                *)

InitSchema ==
  /\ chain = << >>
  /\ marshal = [req |-> TRUE, resp |-> TRUE]
  /\ pc = [r \in Reqs |-> "absent"]
  /\ gen \in {[NoGen EXCEPT !.t = t, !.size = 1] :
                t \in {Leaf(k) : k \in LeafKinds} \cup {StructOf(<< >>)}}
  /\ api = NoApi
  /\ InitRequests

Requests == <<chain, marshal, cancelled, pc, callerCtx, stack, ret, heap, units,
              direct, log, cgot>>
Others == <<api, Requests>>

Grows == ~gen.done /\ gen.size < MaxTypeSize

\* []T, [n]T and *T of the type so far.
WrapType ==
  /\ Grows
  /\ \E t \in {SliceOf(gen.t), ArrayOf(gen.t), PtrTo(gen.t)} :
       gen' = [gen EXCEPT !.t = t, !.size = @ + 1]
  /\ UNCHANGED Others

\* A record with one field of the type so far.
WrapStruct ==
  /\ Grows
  /\ \E d \in FieldDecls :
       gen' = [gen EXCEPT !.t = StructOf(<<Field(d.name, d.tag, gen.t)>>),
                          !.size = @ + 1]
  /\ UNCHANGED Others

\* One more field in the record so far, under a name it does not have yet.
AddField ==
  /\ Grows
  /\ gen.t.kind = "Struct"
  /\ \E d \in FieldDecls, t \in FieldTypes :
       /\ \A i \in 1..Len(gen.t.fields) : gen.t.fields[i].name # d.name
       /\ gen' = [gen EXCEPT !.t = StructOf(Append(gen.t.fields, Field(d.name, d.tag, t))),
                             !.size = @ + 1]
  /\ UNCHANGED Others

\* bodySchema := generateBodySchema(endpoint.Body)
Generate ==
  /\ ~gen.done
  /\ gen' = [gen EXCEPT !.done = TRUE, !.schema = generateBodySchema(gen.t)]
  /\ UNCHANGED Others

NextSchema == WrapType \/ WrapStruct \/ AddField \/ Generate

\* The schema generator on every type of at most MaxTypeSize nodes.
SpecSchema == InitSchema /\ [][NextSchema]_vars

----------------------------------------------------------------------------
(* The registries at wiring time: NewApiPrinter, Add, Print and the        *)
(* document handler of PublishAPI; NewMQTTTopicPrinter and its Add.        *)

InitDoc ==
  /\ chain = << >>
  /\ marshal = [req |-> TRUE, resp |-> TRUE]
  /\ pc = [r \in Reqs |-> "absent"]
  /\ InitCommon

\* func (r *ApiPrinter) Add(apiData APIData) *ApiPrinter:
\* r.urls = append(r.urls, apiData); return r
ApiAddOf(choices) ==
  /\ api.alive
  /\ Len(api.urls) < MaxReg
  /\ \E apiData \in choices :
       api' = [api EXCEPT !.urls = Append(@, apiData),
                          !.added = Append(@, apiData),
                          !.ret = "ApiPrinter"]
  /\ UNCHANGED <<gen, Requests>>

ApiAdd == ApiAddOf(Endpoints)
ApiAddAny == ApiAddOf(Descriptors)

\* func (p *MQTTTopicPrinter) Add(topicData MQTTTopicData) *MQTTTopicPrinter
MqttAdd ==
  /\ api.alive
  /\ Len(api.topics) < MaxReg
  /\ \E topicData \in TopicChoices :
       api' = [api EXCEPT !.topics = Append(@, topicData),
                          !.topicsAdded = Append(@, topicData),
                          !.ret = "MQTTTopicPrinter"]
  /\ UNCHANGED <<gen, Requests>>

\* func (r ApiPrinter) Print(): one line per descriptor, "%s %s\n".
ApiPrint ==
  /\ api.alive
  /\ api' = [api EXCEPT
               !.out = [i \in 1..Len(api.urls) |->
                          api.urls[i].method \o <<" ">> \o api.urls[i].url],
               !.printed = TRUE,
               !.listed = api.urls]
  /\ UNCHANGED <<gen, Requests>>

\* The orders in which a loop over a map with the keys S may meet them.
KeyOrders(S) ==
  {o \in [1..Cardinality(S) -> S] : \A i, j \in 1..Cardinality(S) : i # j => o[i] # o[j]}

Captured_Live(a) == a.urls

\* The registry of the copy r that the handler of PublishAPI closes over:
\* the value receiver copies the slice header, so its length stays what
\* it was at the call.
Captured(a) == a.pub

\* func (r ApiPrinter) PublishAPI(mux, baseURL, apiURL), called once.
PublishAPI ==
  /\ api.alive /\ ~api.published
  /\ api' = [api EXCEPT !.published = TRUE, !.pub = api.urls]
  /\ UNCHANGED <<gen, Requests>>

\* A request to the document endpoint: obj := r.generateOpenAPISchema(baseURL),
\* then yaml.Marshal(&obj) and the response.
ApiGenerate ==
  /\ api.alive /\ api.published
  /\ \E tagOrder \in KeyOrders(UniqueTags(Captured(api))) :
       LET obj == generateOpenAPISchema(Captured(api), BaseURL, tagOrder)
       IN api' = [api EXCEPT !.doc = obj,
                             !.seen = Captured(api),
                             !.prev = api.resp,
                             !.resp = ServeDoc(obj),
                             !.alive = ServeDoc(obj) # Dropped]
  /\ UNCHANGED <<gen, Requests>>

TopicsCaptured_Live(a) == a.topics

\* The registry of the copy p that the handler of PublishMQTTTopicSchema
\* closes over.
TopicsCaptured(a) == a.tpub

\* func (p MQTTTopicPrinter) PublishMQTTTopicSchema(mux, baseURL, apiURL)
PublishMQTTTopicSchema ==
  /\ api.alive /\ ~api.tpublished
  /\ api' = [api EXCEPT !.tpublished = TRUE, !.tpub = api.topics]
  /\ UNCHANGED <<gen, Requests>>

\* A request to the topic schema endpoint.
MqttGenerate ==
  /\ api.alive /\ api.tpublished
  /\ api' = [api EXCEPT
               !.tresp = Response(200, "text/json",
                                  GenerateMQTTTopicSchema(TopicsCaptured(api)))]
  /\ UNCHANGED <<gen, Requests>>

NextDoc == ApiAdd \/ MqttAdd \/ ApiPrint \/ PublishAPI \/ ApiGenerate

\* The registries under every sequence of at most MaxReg registrations.
SpecDoc == InitDoc /\ [][NextDoc]_vars

NextPublish ==
  \/ ApiAdd \/ PublishAPI \/ ApiGenerate
  \/ MqttAdd \/ PublishMQTTTopicSchema \/ MqttGenerate

NextOps == ApiAddAny \/ PublishAPI \/ ApiGenerate

\* The documents of every registry of at most MaxReg descriptors of any
\* shape.
SpecOps == InitDoc /\ [][NextOps]_vars

\* The two registries, their publication at any point of the registrations,
\* and requests to the two endpoints.
SpecPublish == InitDoc /\ [][NextPublish]_vars

----------------------------------------------------------------------------
(* Specifications *)

Step(r) ==
  \/ Call(r)
  \/ LoggingEnter(r)
  \/ LoggingReturn(r)
  \/ TimingEnter(r)
  \/ TimingReturn(r)
  \/ RetryEnter(r)
  \/ RetryReturn(r)
  \/ TxBegin(r)
  \/ TxEnd(r)
  \/ HandlerInvoke(r)
  \/ Finish(r)

Next == \E r \in Reqs : Step(r)

\* One request through every chain of at most MaxDepth layers.
Spec == Init /\ [][Next]_vars

ConcStep(r) ==
  \/ Call(r)
  \/ RetryEnter(r)
  \/ RetryReturn(r)
  \/ TxBegin(r)
  \/ TxEnd(r)
  \/ HandlerInvoke(r)
  \/ Finish(r)

NextConc == \E r \in Reqs : ConcStep(r)

\* Two concurrent requests through the same Transaction-wrapped handler.
SpecConc == InitConc /\ [][NextConc]_vars

CancelStep(r) ==
  \/ Call(r)
  \/ Cancel(r)
  \/ RetryEnter(r)
  \/ RetryReturn(r)
  \/ HandlerInvoke(r)
  \/ Finish(r)

NextCancel == \E r \in Reqs : CancelStep(r)

\* Retry under a context that may be cancelled at any time.
SpecCancel == InitCancel /\ [][NextCancel]_vars

PassStep(r) ==
  \/ Call(r)
  \/ LoggingEnter(r)
  \/ LoggingReturn(r)
  \/ TimingEnter(r)
  \/ TimingReturn(r)
  \/ RawHandlerInvoke(r)
  \/ Finish(r)

NextPass == \E r \in Reqs : PassStep(r)

\* Logging and Timing around any function of the handler type.
SpecPass == InitPass /\ [][NextPass]_vars

CarrierStep(r) ==
  \/ AttachStep(r)
  \/ GetStep(r)
  \/ Call(r)
  \/ TxBegin(r)
  \/ TxEnd(r)
  \/ HandlerInvoke(r)
  \/ Finish(r)

NextCarrier == \E r \in Reqs : CarrierStep(r)

\* A caller that derives and reads contexts before it calls the handler.
SpecCarrier == InitCarrier /\ [][NextCarrier]_vars

----------------------------------------------------------------------------
(* Reading a request's history *)

\* The calls of request r that have returned, and all its calls.
Returned(r) == {log[r].done[k] : k \in 1..Len(log[r].done)}
AllCalls(r) == Returned(r) \cup {stack[r][d] : d \in 1..Len(stack[r])}

\* Its calls of a layer of the given kind.
CallsOf(r, kind) == {c \in AllCalls(r) : c.kind = kind}

IsDone(c) == c.out # NoRet

\* The positions in the trace of call c of its steps of kind ev.
Steps(c, ev) == {k \in 1..Len(c.tr) : c.tr[k].ev = ev}

\* The calls c made of the handler it wraps, and what they returned.
InnerCalls(c) == Steps(c, "call")
InnerRets(c) == Steps(c, "ret")

\* The calls made by the call c.
Children(r, c) == {x \in AllCalls(r) : x.parent = c.id}

MaxOf(S) == CHOOSE x \in S : \A y \in S : y <= x
MinOf(S) == CHOOSE x \in S : \A y \in S : x <= y

CommitIssued(u) == units[u].status \in {"committed", "commitFailed"}
RollbackIssued(u) == units[u].status \in {"rolledBack", "rollbackFailed"}

----------------------------------------------------------------------------
(* Claims *)

\* C1: for every retry count N >= 1, a handler returned by Retry(handler, N)
\* whose inner handler fails k < N times and then succeeds returns that
\* success response with a nil error after exactly k+1 invocations: it never
\* gives up after fewer than N failures, never invokes the inner handler
\* again after a success, and returns the response of the success.
C1_RetrySuccess ==
  \A r \in Reqs : \A c \in CallsOf(r, "Retry") :
    c.attempt >= 1 =>
      LET succ == {k \in InnerRets(c) : c.tr[k].out.err = NIL}
      IN /\ \A s \in succ : \A k \in InnerCalls(c) : k < s
         /\ IsDone(c) =>
              IF succ = {}
              THEN Cardinality(InnerCalls(c)) >= c.attempt
              ELSE /\ Cardinality(succ) = 1
                   /\ Cardinality(InnerCalls(c)) <= c.attempt
                   /\ Cardinality(InnerCalls(c)) = Cardinality(InnerRets(c))
                   /\ c.out = Pair(c.tr[MinOf(succ)].out.resp, NIL)
                   /\ c.tr[MinOf(succ)].out.resp # NIL

\* A Retry of two attempts has returned the response of the second
\* invocation after the first one failed.
C1_Witness ==
  \E r \in Reqs : \E c \in CallsOf(r, "Retry") :
    /\ c.attempt = 2
    /\ IsDone(c)
    /\ Cardinality(InnerCalls(c)) = 2
    /\ c.out.err = NIL
    /\ c.out.resp # NIL

\* C2: for every retry count N >= 1, when the inner handler fails on its
\* first N calls, Retry(handler, N) invokes it exactly N times and returns a
\* nil response with the error of the N-th invocation, unchanged.
C2_RetryExhausted ==
  \A r \in Reqs : \A c \in CallsOf(r, "Retry") :
    c.attempt >= 1 =>
      LET succ == {k \in InnerRets(c) : c.tr[k].out.err = NIL}
      IN /\ Cardinality(InnerCalls(c)) <= c.attempt
         /\ (IsDone(c) /\ succ = {}) =>
              /\ Cardinality(InnerCalls(c)) = c.attempt
              /\ Cardinality(InnerRets(c)) = c.attempt
              /\ c.out = Pair(NIL, c.tr[MaxOf(InnerRets(c))].out.err)
              /\ c.out.err # NIL

\* A Retry of two attempts has returned the second error after two failed
\* invocations.
C2_Witness ==
  \E r \in Reqs : \E c \in CallsOf(r, "Retry") :
    /\ c.attempt = 2
    /\ IsDone(c)
    /\ Cardinality(InnerRets(c)) = 2
    /\ c.out.resp = NIL
    /\ c.out.err = c.tr[MaxOf(InnerRets(c))].out.err
    /\ c.out.err # c.tr[MinOf(InnerRets(c))].out.err

\* The Transaction calls that have returned.
TxDone(r) == {c \in CallsOf(r, "Tx") : IsDone(c)}

\* What the handler wrapped by the finished call c returned last.
InnerOut(c) == c.tr[MaxOf(InnerRets(c))].out

\* C3: for every call of a handler wrapped by TransactionMiddleware, the
\* commit of the unit of work is issued if and only if the wrapped handler
\* returned a nil error; when it returned an error the unit is rolled back,
\* no commit is issued, and, if the rollback succeeds, the caller receives a
\* nil response and exactly the handler's error.
C3_CommitIffNilError ==
  \A r \in Reqs : \A c \in TxDone(r) :
    LET u == c.unit
        in == InnerOut(c)
    IN /\ u # 0
       /\ units[u].status # "open"
       /\ CommitIssued(u) <=> in.err = NIL
       /\ Steps(c, "commit") # {} <=> in.err = NIL
       /\ in.err # NIL =>
            /\ RollbackIssued(u)
            /\ Steps(c, "rollback") # {}
            /\ units[u].status = "rolledBack" => c.out = Pair(NIL, in.err)

\* A Transaction call has rolled its unit back on a handler error and has
\* returned that error.
C3_Witness ==
  \E r \in Reqs : \E c \in TxDone(r) :
    /\ InnerOut(c).err # NIL
    /\ units[c.unit].status = "rolledBack"
    /\ c.out = Pair(NIL, InnerOut(c).err)

\* C4: when the wrapped handler returns a response with a nil error and the
\* commit fails, the Transaction-wrapped handler returns a nil response and
\* the commit error; the handler's response is never returned with, or
\* instead of, a failed commit.
C4_CommitFailure ==
  \A r \in Reqs : \A c \in TxDone(r) :
    units[c.unit].status = "commitFailed" =>
      /\ InnerOut(c).err = NIL
      /\ InnerOut(c).resp # NIL
      /\ c.out = Pair(NIL, CommitErr(c.unit))

\* A Transaction call whose handler succeeded has returned the commit error.
C4_Witness ==
  \E r \in Reqs : \E c \in TxDone(r) :
    /\ units[c.unit].status = "commitFailed"
    /\ InnerOut(c).resp # NIL
    /\ c.out.err = CommitErr(c.unit)

\* C5: TransactionMiddleware invokes the wrapped handler exactly once per
\* call, after the unit of work is opened and before it is committed or
\* rolled back, with a derived context in which GetDBFromContext(ctx, db)
\* returns that unit's transactional handle, whatever the incoming context
\* carried; in the incoming context GetDBFromContext still returns what it
\* returned before the call.
C5_InvokedOnceInsideUnit ==
  \A r \in Reqs :
    /\ \A c \in CallsOf(r, "Tx") :
         LET opens == Steps(c, "open")
             closes == Steps(c, "commit") \cup Steps(c, "rollback")
         IN /\ Cardinality(InnerCalls(c)) <= 1
            /\ Cardinality(opens) <= 1
            /\ IsDone(c) => Cardinality(InnerCalls(c)) = 1 /\ closes # {}
            /\ \A k \in InnerCalls(c) :
                 /\ opens # {} /\ MinOf(opens) < k
                 /\ \A e \in closes : k < e /\ InnerRets(c) # {} /\ MaxOf(InnerRets(c)) < e
                 /\ c.tr[k].ctx # c.ctx
                 /\ GetDBFromContext(heap, c.tr[k].ctx, BaseDB) = TxHandle(c.unit)
            /\ \A o \in opens :
                 /\ c.tr[o].ctx = c.ctx
                 /\ c.tr[o].u = c.unit
                 /\ GetDBFromContext(heap, c.ctx, BaseDB) = c.tr[o].h
    /\ pc[r] \in {"running", "done"} =>
         GetDBFromContext(heap, callerCtx[r], BaseDB) = log[r].h0

\* A Transaction call entered with a context that already carried a handle
\* has invoked its handler with its own unit's handle and has returned.
C5_Witness ==
  \E r \in Reqs : \E c \in TxDone(r) :
    /\ GetDBFromContext(heap, c.ctx, BaseDB) # BaseDB
    /\ \E k \in InnerCalls(c) :
         GetDBFromContext(heap, c.tr[k].ctx, BaseDB) = TxHandle(c.unit)

\* The Retry calls that directly wrap the Transaction middleware.
RetryOverTx(r) == {c \in CallsOf(r, "Retry") : LayerAt(c.d + 1).kind = "Tx"}

\* The attempts of the Retry call c whose unit is committed.
CommittedBy(r, c) ==
  {a \in Children(r, c) : a.unit # 0 /\ units[a.unit].status = "committed"}

\* C6: when Retry wraps Transaction, each attempt opens its own unit of
\* work, the unit of every failed attempt is rolled back before the next
\* attempt begins, at most one unit is committed per call, the one of the
\* first successful attempt, and no unit is committed when all attempts fail.
C6_RetryOutsideTransaction ==
  \A r \in Reqs : \A c \in RetryOverTx(r) :
    LET as == Children(r, c) IN
    /\ Cardinality(as) = Cardinality(InnerCalls(c))
    /\ \A a \in as : \A b \in as :
         a.id < b.id =>
           /\ a.unit # 0 /\ b.unit # a.unit
           /\ IsDone(a)
           /\ a.out.err # NIL
           /\ \E e \in Steps(a, "rollback") : a.tr[e].u = a.unit /\ a.tr[e].t < b.id
           /\ units[a.unit].status \notin {"open", "committed"}
    /\ \A a \in as : IsDone(a) => a.unit # 0
    /\ Cardinality(CommittedBy(r, c)) <= 1
    /\ \A a \in CommittedBy(r, c) :
         /\ \A b \in as : b.id <= a.id
         /\ a.out.err = NIL
    /\ IsDone(c) =>
         IF c.out.err = NIL
         THEN Cardinality(CommittedBy(r, c)) = 1
         ELSE CommittedBy(r, c) = {}

\* The wiring example's handler has returned success: its first attempt was
\* rolled back and its second attempt committed.
C6_Witness ==
  \E r \in Reqs : \E c \in RetryOverTx(r) :
    /\ chain = WiringChain
    /\ IsDone(c)
    /\ Cardinality(Children(r, c)) = 2
    /\ \E a \in Children(r, c) : units[a.unit].status = "rolledBack"
    /\ Cardinality(CommittedBy(r, c)) = 1

\* The Transaction calls that directly wrap Retry around the innermost
\* handler h.
TxOverRetry(r) ==
  {c \in CallsOf(r, "Tx") :
     LayerAt(c.d + 1).kind = "Retry" /\ LayerAt(c.d + 2).kind = "Handler"}

\* The attempts of h made inside the call c: the calls made by the calls
\* that c made.
AttemptsIn(r, c) ==
  {x \in Returned(r) : \E m \in Children(r, c) : x.parent = m.id}

\* The invocation recorded by the returned call x of h.
Invoke(x) == x.tr[MinOf(Steps(x, "invoke"))]

\* C7: when Transaction wraps Retry, one call opens exactly one unit of work
\* and all attempts of h run inside it with the same transactional context;
\* nothing is rolled back between attempts, so the writes of failed attempts
\* are committed with the successful attempt's writes when a later attempt
\* succeeds, and the unit is rolled back only when all attempts fail.
C7_RetryInsideTransaction ==
  \A r \in Reqs : \A c \in TxOverRetry(r) :
    LET u == c.unit
        at == AttemptsIn(r, c)
        closes == Steps(c, "commit") \cup Steps(c, "rollback")
    IN /\ Cardinality(Steps(c, "open")) <= 1
       /\ Cardinality(Children(r, c)) <= 1
       /\ at # {} => u # 0
       /\ \A x \in at :
            /\ Invoke(x).h = TxHandle(u)
            /\ \A y \in at : y.ctx = x.ctx
            /\ \A e \in closes : Invoke(x).t < c.tr[e].t
       /\ u # 0 => units[u].writes = {<<r, Invoke(x).n>> : x \in at}
       /\ (u # 0 /\ units[u].status = "committed") =>
            /\ \E x \in at : Invoke(x).ok /\ c.out = Pair(x.out.resp, NIL)
       /\ (u # 0 /\ RollbackIssued(u)) =>
            /\ \A x \in at : ~Invoke(x).ok
            /\ \A m \in Children(r, c) :
                 m.attempt >= 1 => Cardinality(at) = m.attempt
       /\ (IsDone(c) /\ \E x \in at : Invoke(x).ok) => CommitIssued(u)

\* A Transaction around a Retry of two attempts has committed the writes of
\* the failed first attempt together with those of the second.
C7_Witness ==
  \E r \in Reqs : \E c \in TxOverRetry(r) :
    /\ IsDone(c)
    /\ units[c.unit].status = "committed"
    /\ Cardinality(units[c.unit].writes) = 2
    /\ \E x \in AttemptsIn(r, c) : ~Invoke(x).ok

WellFormed(p) ==
  \/ p.resp # NIL /\ p.err = NIL
  \/ p.resp = NIL /\ p.err # NIL

\* C8: Logging, Timing, Retry and TransactionMiddleware, and every chain
\* built from them, preserve the Action Handler invariant: around a handler
\* that returns (response, nil) or (nil, error), every layer returns
\* (non-nil response, nil error) or (nil response, non-nil error) on every
\* call, also when the commit fails or the retries are exhausted.
C8_HandlerInvariant ==
  \A r \in Reqs :
    /\ \A c \in Returned(r) : WellFormed(c.out)
    /\ ret[r] # NoRet => WellFormed(ret[r])

\* The wiring example's chain has returned an error after three attempts,
\* one of which failed in its commit.
C8_Witness ==
  \E r \in Reqs :
    /\ pc[r] = "done"
    /\ chain = WiringChain
    /\ ret[r].resp = NIL
    /\ \E c \in CallsOf(r, "Retry") : Cardinality(InnerCalls(c)) = WiringAttempt
    /\ \E u \in 1..Len(units) : units[u].status = "commitFailed"

\* The context ctx and the contexts it was derived from.
RECURSIVE Anc(_)
Anc(ctx) == IF ctx = 0 THEN {} ELSE {ctx} \cup Anc(heap[ctx].parent)

\* The contexts among them on which key was attached.
Binders(ctx, key) == {a \in Anc(ctx) : heap[a].key = key}

\* The value attached last under key on ctx or an ancestor when there is one
\* and it has the type of the default, else the default.
Carried(ctx, key, default) ==
  IF Binders(ctx, key) = {} THEN default
  ELSE LET v == heap[MaxOf(Binders(ctx, key))].val
       IN IF v.t = default.t THEN v ELSE default

\* The invocations of h made by request r.
InvokesOf(r) == {Invoke(x) : x \in {c \in Returned(r) : c.kind = "Handler"}}

\* The unit of the Transaction call that encloses the call x most closely,
\* or 0.
RECURSIVE EnclosingUnit(_, _)
EnclosingUnit(r, x) ==
  IF x.parent = 0 THEN 0
  ELSE LET p == CHOOSE c \in AllCalls(r) : c.id = x.parent
       IN IF p.kind = "Tx" THEN p.unit ELSE EnclosingUnit(r, p)

\* C9: Context Data Carrier round trip: Get(Attach(ctx, K, V), K, d) returns
\* V, and Get(ctx, K, d) returns d when K was never attached on ctx or an
\* ancestor or when the attached value is not of the requested type; so
\* GetDBFromContext(ctx, db) returns db outside any Transaction middleware
\* and the transactional handle inside one.
C9_CarrierRoundTrip ==
  /\ cgot.op = "attach" =>
       \A d \in Defaults :
         GetDataFromContext(heap, cgot.ctx, cgot.key, d) =
           IF d.t = cgot.val.t THEN cgot.val ELSE d
  /\ cgot.op = "get" =>
       /\ cgot.res = Carried(cgot.ctx, cgot.key, cgot.val)
       /\ Binders(cgot.ctx, cgot.key) = {} => cgot.res = cgot.val
       /\ heap[cgot.ctx].key = cgot.key /\ heap[cgot.ctx].val.t = cgot.val.t =>
            cgot.res = heap[cgot.ctx].val
  /\ \A r \in Reqs : \A x \in {c \in Returned(r) : c.kind = "Handler"} :
       IF HasKind(chain, "Tx")
       THEN Invoke(x).h = TxHandle(EnclosingUnit(r, x))
       ELSE /\ Invoke(x).h = Carried(callerCtx[r], GormDBKey, BaseDB)
            /\ Binders(callerCtx[r], GormDBKey) = {} => Invoke(x).h = BaseDB

\* The caller has read back a handle it attached, and a handler called
\* inside a Transaction middleware with that context has read the
\* transactional handle instead.
C9_Witness ==
  /\ cgot.op = "get"
  /\ cgot.key = GormDBKey
  /\ cgot.val = BaseDB
  /\ cgot.res = AmbientDB
  /\ cgot.ctx > Len(InitHeap)
  /\ \E r \in Reqs :
       /\ pc[r] = "done"
       /\ callerCtx[r] = cgot.ctx
       /\ \E e \in InvokesOf(r) : e.h = TxHandle(1)

\* C10: Attach never mutates the context it is given, so under any
\* interleaving of concurrent requests through the same Transaction-wrapped
\* handler the wrapped handler of each request reads from its context only
\* the transactional handle opened for that same request.
C10_RequestsIsolated ==
  /\ SubSeq(heap, 1, Len(InitHeap)) = InitHeap
  /\ \A r \in Reqs :
       /\ pc[r] \in {"running", "done"} =>
            GetDBFromContext(heap, callerCtx[r], BaseDB) = log[r].h0
       /\ \A x \in {c \in Returned(r) : c.kind = "Handler"} :
            /\ Invoke(x).h.id \in 1..Len(units)
            /\ units[Invoke(x).h.id].owner = r
            /\ Invoke(x).h = TxHandle(EnclosingUnit(r, x))
            /\ GetDBFromContext(heap, x.ctx, BaseDB) = Invoke(x).h

\* Two requests that were passed the same context have each invoked the
\* handler inside their own unit while the other's unit was open.
C10_Witness ==
  /\ callerCtx["r1"] = callerCtx["r2"]
  /\ \E u \in 1..Len(units) : \E v \in 1..Len(units) :
       /\ units[u].owner = "r1" /\ units[v].owner = "r2"
       /\ units[u].status = "open" /\ units[v].status = "open"
       /\ units[u].writes # {} /\ units[v].writes # {}

C12_TimingTransparent ==
  \A r \in Reqs : \A c \in CallsOf(r, "Timing") :
    /\ Cardinality(InnerCalls(c)) <= 1
    /\ \A k \in InnerCalls(c) : c.tr[k].ctx = c.ctx /\ c.tr[k].req = c.req
    /\ \A k \in Steps(c, "print-took") : c.tr[k].text = Text("took", c.label)
    /\ IsDone(c) =>
         /\ Cardinality(InnerCalls(c)) = 1
         /\ Cardinality(InnerRets(c)) = 1
         /\ Cardinality(Steps(c, "print-took")) = 1
         /\ c.out = InnerOut(c)

\* A labelled Timing call that measured a long duration has returned the
\* response and the error its inner handler returned together.
C12_Witness ==
  \E r \in Reqs : \E c \in CallsOf(r, "Timing") :
    /\ IsDone(c)
    /\ c.label = "CreateUser"
    /\ \E k \in Steps(c, "print-took") : c.tr[k].n = 1
    /\ c.out.resp # NIL /\ c.out.err # NIL
    /\ c.out = InnerOut(c)

\* C13: Retry does not respect cancellation: when the context passed to a
\* Retry-wrapped handler is cancelled before or between attempts and the
\* inner handler keeps returning errors, Retry still invokes the inner
\* handler until N attempts have been made, passing the same context and
\* request to every attempt.
C13_RetryIgnoresCancellation ==
  \A r \in Reqs : \A c \in CallsOf(r, "Retry") :
    (c.attempt >= 1 /\ \E k \in InnerCalls(c) : ~c.tr[k].ok) =>
      /\ \A k \in InnerCalls(c) : c.tr[k].ctx = c.ctx /\ c.tr[k].req = c.req
      /\ (IsDone(c) /\ \A k \in InnerRets(c) : c.tr[k].out.err # NIL) =>
           /\ Cardinality(InnerCalls(c)) = c.attempt
           /\ c.out = Pair(NIL, InnerOut(c).err)

\* A Retry of two attempts whose context was cancelled between the attempts
\* has made the second attempt with the cancelled context and has returned
\* its error.
C13_Witness ==
  \E r \in Reqs : \E c \in CallsOf(r, "Retry") :
    /\ c.attempt = 2
    /\ IsDone(c)
    /\ Cardinality(InnerCalls(c)) = 2
    /\ c.tr[MinOf(InnerCalls(c))].ok
    /\ ~c.tr[MaxOf(InnerCalls(c))].ok
    /\ c.tr[MaxOf(InnerCalls(c))].ctx = c.ctx
    /\ c.out.err # NIL

SchemaTypes == {"object", "array", "string", "integer", "number", "boolean"}

\* Every node of the schema n has a type.
RECURSIVE WellTyped(_)
WellTyped(n) ==
  /\ n.type \in SchemaTypes
  /\ "properties" \in DOMAIN n =>
       \A k \in DOMAIN n.properties : WellTyped(n.properties[k])
  /\ "items" \in DOMAIN n => WellTyped(n.items)

\* The type t refers back to the record that encloses it.
RECURSIVE RefersBack(_)
RefersBack(t) ==
  \/ t = Self
  \/ \E i \in 1..Len(t.elem) : RefersBack(t.elem[i])
  \/ \E i \in 1..Len(t.fields) : RefersBack(t.fields[i].type)

\* C14: schema generation terminates with a complete result: for every type
\* of finite nesting depth built from records, sequences, optional wrappers
\* and primitives, generateSchema returns a schema node in which every node
\* has a type and no node is an error or unresolved marker.
C14_SchemaComplete ==
  (gen.done /\ ~RefersBack(gen.t)) =>
    /\ gen.schema # Crash
    /\ WellTyped(gen.schema)

\* The schema of a record with a field of a sequence type has been
\* generated: an object with an array of a primitive.
C14_Witness ==
  /\ gen.done
  /\ gen.t.kind = "Struct"
  /\ Len(gen.t.fields) = 1
  /\ gen.t.fields[1].type.kind = "Slice"
  /\ gen.schema.type = "object"
  /\ \E k \in DOMAIN gen.schema.properties :
       /\ gen.schema.properties[k].type = "array"
       /\ gen.schema.properties[k].items.type \in {"string", "integer", "number", "boolean"}

\* C15: the schema generator is total over all field types and never fails:
\* for every field type, the kinds it does not recognize and the record
\* types whose fields refer back to the enclosing record through an optional
\* wrapper or a sequence included, generateSchema terminates and returns a
\* schema node.
C15_SchemaTotal ==
  gen.done => gen.schema # Crash /\ gen.schema.type \in SchemaTypes

\* C16: every primitive kind maps to the corresponding schema primitive:
\* "string" for every textual kind, "integer" for every integer kind of
\* every width, signed and unsigned, "number" for every floating-point kind
\* and "boolean" for the boolean kind; no primitive numeric, textual or
\* boolean kind yields "object".
C16_PrimitiveKinds ==
  gen.done =>
    /\ gen.t.kind = "String" => gen.schema.type = "string"
    /\ gen.t.kind \in IntKinds \cup UintKinds => gen.schema.type = "integer"
    /\ gen.t.kind \in FloatKinds => gen.schema.type = "number"
    /\ gen.t.kind = "Bool" => gen.schema.type = "boolean"
    /\ gen.t.kind \in {"String", "Bool"} \cup IntKinds \cup UintKinds
                        \cup FloatKinds \cup ComplexKinds =>
         gen.schema.type # "object"

\* The serialized name of a field: its json tag up to the first comma when
\* it has a tag, else its declared name.
SerializedName(f) ==
  IF f.tag # << >> THEN Split(f.tag, ",")[1] ELSE f.name

\* C17: for every record type generateSchema returns an object node whose
\* properties hold one entry per field, keyed by the field's serialized
\* name; the key is never empty, also when the tag carries a qualifier
\* suffix such as an omit-empty marker.
C17_RecordProperties ==
  (gen.done /\ gen.t.kind = "Struct" /\ gen.schema # Crash) =>
    /\ gen.schema.type = "object"
    /\ DOMAIN gen.schema.properties =
         {SerializedName(gen.t.fields[i]) : i \in 1..Len(gen.t.fields)}
    /\ Cardinality(DOMAIN gen.schema.properties) = Len(gen.t.fields)
    /\ \A k \in DOMAIN gen.schema.properties : k # << >>

\* C18: for every sequence type with element type E, variable-length or
\* fixed-length, generateSchema returns an array node whose items equal
\* generateSchema(E).
C18_SequenceItems ==
  (gen.done /\ gen.t.kind \in {"Slice", "Array"} /\ gen.schema # Crash) =>
    /\ gen.schema.type = "array"
    /\ "items" \in DOMAIN gen.schema
    /\ gen.schema.items = generateBodySchema(gen.t.elem[1])

\* The endpoints of a registry as a document names them.
Registered(urls) ==
  [i \in 1..Len(urls) |-> [method |-> ToLower(urls[i].method), path |-> urls[i].url]]

\* C19: Add appends the descriptor as the last element of the registry,
\* leaves the earlier entries unchanged and returns the same registry; after
\* any sequence of Add calls the registry holds exactly the added
\* descriptors in call order, and that registration order is the order in
\* which the endpoints appear in the printed listing and in the generated
\* document.
C19_RegistrationOrder ==
  /\ api.urls = api.added
  /\ api.topics = api.topicsAdded
  /\ api.ret \in {"none", "ApiPrinter", "MQTTTopicPrinter"}
  /\ api.printed =>
       api.out = [i \in 1..Len(api.listed) |->
                    api.listed[i].method \o <<" ">> \o api.listed[i].url]
  /\ api.doc # NoDoc => DocListing(api.doc) = Registered(api.seen)

Str_post == <<"p", "o", "s", "t">>
Str_id == <<"i", "d">>

\* The operation generated for POST /api/users/{id}: one path parameter
\* named id, a JSON body schema whose properties have the keys given, each
\* typed string.
CreateUserOperation(op, keys) ==
  /\ "parameters" \in DOMAIN op
  /\ Len(op.parameters) = 1
  /\ op.parameters[1]["in"] = "path"
  /\ op.parameters[1].name = Str_id
  /\ "requestBody" \in DOMAIN op
  /\ LET properties == op.requestBody.content["application/json"].schema.properties
     IN /\ DOMAIN properties = keys
        /\ \A k \in keys : properties[k].type = "string"

\* The example of the response 200 of an operation is {"status":"success"}.
SuccessExample(op) ==
  /\ Itoa(200) \in DOMAIN op.responses
  /\ op.responses[Itoa(200)].content["application/json"].example = Success

DocOf(urls) == api.seen = urls /\ api.doc # NoDoc

\* C20 as stated: with a registry holding the single endpoint {POST,
\* "/api/users/{id}", body struct{Email string; Name string}, examples
\* [{200, {"status":"success"}}]}, the document has one path parameter
\* named id, body properties with the keys email and name, each typed
\* string, and the example of response 200 equal to {"status":"success"}.
C20_EndToEnd ==
  DocOf(<<Ep_Scenario>>) =>
    LET op == api.doc.paths[Url_User][Str_post]
    IN CreateUserOperation(op, {Str_email, Str_name}) /\ SuccessExample(op)

\* C20, amended: for that endpoint the document has one path parameter
\* named id, body properties with the keys Email and Name (the declared
\* names of the untagged fields), each typed string, and the example of
\* response 200 equal to {"status":"success"}; the keys are email and name
\* when the fields of the body carry the tags json:"email" and json:"name".
C20_EndToEndDeclaredNames ==
  /\ DocOf(<<Ep_Scenario>>) =>
       LET op == api.doc.paths[Url_User][Str_post]
       IN CreateUserOperation(op, {Str_Email, Str_Name}) /\ SuccessExample(op)
  /\ DocOf(<<Ep_CreateUser>>) =>
       CreateUserOperation(api.doc.paths[Url_User][Str_post], {Str_email, Str_name})

C20_Witness == DocOf(<<Ep_Scenario>>) /\ Url_User \in DOMAIN api.doc.paths

\* A document was generated from the registry api.seen.
HasDoc == "paths" \in DOMAIN api.doc

\* The i-th descriptor of urls is the last one with its URL and its method
\* (ignoring case): its operation is the one the document holds.
Remains(urls, i) ==
  \A j \in (i + 1)..Len(urls) :
    ~(urls[j].url = urls[i].url /\ ToLower(urls[j].method) = ToLower(urls[i].method))

\* The operation of the document at the URL and method of endpoint e.
OpOf(e) == api.doc.paths[e.url][ToLower(e.method)]

\* The brace-delimited segments of a URL template, in URL order.
BraceSegments(url) ==
  LET IsBrace(seg) == Len(seg) >= 1 /\ seg[1] = "{" /\ seg[Len(seg)] = "}"
  IN SelectSeq(Split(url, "/"), IsBrace)

\* The parameters list of an operation, empty when the field is absent.
ParametersOf(op) == IF "parameters" \in DOMAIN op THEN op.parameters ELSE << >>

\* C21: for every registered endpoint, the operation's parameters list
\* consists of one required path parameter of type string for each
\* brace-delimited segment of the URL template, in URL order, followed by
\* one query parameter per declared query-parameter descriptor in declared
\* order (with its name, type, description and required flag); the
\* parameters field is absent exactly when the URL has no brace-delimited
\* segment and no query parameter is declared.
C21_Parameters ==
  HasDoc =>
    \A i \in 1..Len(api.seen) : Remains(api.seen, i) =>
      LET e == api.seen[i]
          segs == BraceSegments(e.url)
          ps == ParametersOf(OpOf(e))
      IN /\ Len(ps) = Len(segs) + Len(e.queryParams)
         /\ \A k \in 1..Len(segs) :
              /\ ps[k]["in"] = "path"
              /\ ps[k].required = TRUE
              /\ ps[k].schema = [type |-> "string"]
              /\ <<"{">> \o ps[k].name \o <<"}">> = segs[k]
         /\ \A k \in 1..Len(e.queryParams) :
              LET q == e.queryParams[k]
                  got == ps[Len(segs) + k]
              IN /\ got["in"] = "query"
                 /\ got.name = q.name
                 /\ got.schema = [type |-> q.type]
                 /\ got.description = q.description
                 /\ got.required = q.required
         /\ ("parameters" \notin DOMAIN OpOf(e))
              <=> (Len(segs) = 0 /\ Len(e.queryParams) = 0)

\* A document with an operation of two path and two query parameters and an
\* operation without the parameters field.
C21_Witness ==
  /\ HasDoc
  /\ Len(api.seen) = 2
  /\ \E i, j \in 1..2 :
       /\ Len(BraceSegments(api.seen[i].url)) = 2
       /\ Len(api.seen[i].queryParams) = 2
       /\ Len(ParametersOf(OpOf(api.seen[i]))) = 4
       /\ api.seen[i].url # api.seen[j].url
       /\ "parameters" \notin DOMAIN OpOf(api.seen[j])

\* The status codes an endpoint declares examples for, as the keys of the
\* responses map.
DeclaredCodes(e) == {Itoa(e.examples[k].statusCode) : k \in 1..Len(e.examples)}

\* The payload declared for a status code: that of the last example with
\* the code.
PayloadFor(e, code) ==
  LET ks == {k \in 1..Len(e.examples) : Itoa(e.examples[k].statusCode) = code}
  IN e.examples[CHOOSE k \in ks : \A l \in ks : l <= k].content

\* C22: every operation in the generated document has a non-empty responses
\* map: when the endpoint declares examples, responses holds one entry per
\* declared status code, each carrying that example's payload under
\* content["application/json"].example, and no default entry is added; when
\* it declares no example, responses holds exactly the entry "200" with
\* the description "Successful operation".
C22_Responses ==
  HasDoc =>
    \A i \in 1..Len(api.seen) : Remains(api.seen, i) =>
      LET e == api.seen[i]
          responses == OpOf(e).responses
      IN /\ DOMAIN responses # {}
         /\ Len(e.examples) > 0 =>
              /\ DOMAIN responses = DeclaredCodes(e)
              /\ \A code \in DeclaredCodes(e) :
                   responses[code].content["application/json"].example
                     = PayloadFor(e, code)
         /\ Len(e.examples) = 0 =>
              /\ DOMAIN responses = {<<"2", "0", "0">>}
              /\ responses[<<"2", "0", "0">>] = [description |-> "Successful operation"]

\* A document with an operation whose endpoint declares examples for 200
\* and 400, and an operation whose endpoint declares none.
C22_Witness ==
  /\ HasDoc
  /\ Len(api.seen) = 2
  /\ \E i, j \in 1..2 :
       /\ Remains(api.seen, i) /\ Remains(api.seen, j)
       /\ DOMAIN OpOf(api.seen[i]).responses = {<<"2", "0", "0">>, <<"4", "0", "0">>}
       /\ Len(api.seen[j].examples) = 0
       /\ "content" \notin DOMAIN OpOf(api.seen[j]).responses[<<"2", "0", "0">>]

\* The entries of a sequence, without their order.
Entries(seq) == {seq[k] : k \in 1..Len(seq)}

\* Two served documents are the same apart from the order of the entries
\* of the tags list, their last field.
SameApartFromTags(a, b) ==
  /\ Len(a) = Len(b)
  /\ SubSeq(a, 1, Len(a) - 1) = SubSeq(b, 1, Len(b) - 1)
  /\ a[Len(a)][1] = "tags" /\ b[Len(b)][1] = "tags"
  /\ Len(a[Len(a)][2]) = Len(b[Len(b)][2])
  /\ Entries(a[Len(a)][2]) = Entries(b[Len(b)][2])

C24_DocumentOrError ==
  api.resp.got # "none" =>
    /\ api.resp.got = "response"
    /\ \/ /\ api.resp.status = 200
          /\ api.resp.contentType = "text/yaml"
          /\ ~YamlFails(api.doc)
          /\ api.resp.body = YamlMarshal(api.doc)
       \/ /\ api.resp.status = 500
          /\ api.resp.contentType = "text/plain; charset=utf-8"
          /\ YamlFails(api.doc)
          /\ api.resp.body = <<"Error creating YAML">>

\* The schema of one multipart-form parameter.
FormProperty(param) ==
  IF param.type = "file"
  THEN [type |-> "array", items |-> [type |-> "string", format |-> "binary"],
        description |-> param.description]
  ELSE [type |-> param.type, description |-> param.description]

\* C26: an operation has a requestBody exactly when the endpoint declares
\* multipart-form parameters, in which case the body is the
\* multipart/form-data schema only and any declared body type is ignored,
\* or when it declares none, has a non-nil body type and its method is not
\* GET (compared case-insensitively), in which case the body is the
\* application/json schema derived from the body type; a GET endpoint with
\* a body type and no multipart parameters gets no requestBody.
C26_RequestBody ==
  HasDoc =>
    \A i \in 1..Len(api.seen) : Remains(api.seen, i) =>
      LET e == api.seen[i]
          op == OpOf(e)
          form == Len(e.multipart) > 0
          json == ~form /\ e.body # NoBody /\ ToUpper(e.method) # <<"G", "E", "T">>
      IN /\ ("requestBody" \in DOMAIN op) <=> (form \/ json)
         /\ form =>
              /\ DOMAIN op.requestBody.content = {"multipart/form-data"}
              /\ LET schema == op.requestBody.content["multipart/form-data"].schema
                 IN /\ schema.type = "object"
                    /\ DOMAIN schema.properties
                         = {e.multipart[k].name : k \in 1..Len(e.multipart)}
                    /\ \A k \in 1..Len(e.multipart) :
                         schema.properties[e.multipart[k].name]
                           = FormProperty(e.multipart[k])
         /\ json =>
              /\ DOMAIN op.requestBody.content = {"application/json"}
              /\ op.requestBody.content["application/json"].schema
                   = generateBodySchema(e.body)

\* A document with the operation of an endpoint that declares multipart
\* parameters beside a body type, and the operation of a Get endpoint with
\* a body type.
C26_Witness ==
  /\ HasDoc
  /\ Len(api.seen) = 2
  /\ \E i, j \in 1..2 :
       /\ Len(api.seen[i].multipart) > 0 /\ api.seen[i].body # NoBody
       /\ "requestBody" \in DOMAIN OpOf(api.seen[i])
       /\ api.seen[j].method = <<"G", "e", "t">> /\ api.seen[j].body # NoBody
       /\ "requestBody" \notin DOMAIN OpOf(api.seen[j])

\* C27: the generated paths map has one path item per distinct URL template
\* and, inside it, one operation per lowercased method: endpoints
\* registered with the same URL and different methods all appear under the
\* same path item, and when two endpoints are registered with the same URL
\* and the same method (ignoring case) only the later registration's
\* operation remains in the document.
C27_PathItems ==
  HasDoc =>
    LET paths == api.doc.paths
        at(path) == {k \in 1..Len(api.seen) : api.seen[k].url = path}
    IN /\ DOMAIN paths = {api.seen[k].url : k \in 1..Len(api.seen)}
       /\ \A path \in DOMAIN paths :
            /\ \A method \in DOMAIN paths[path] : ToUpper(method) # method
            /\ {ToUpper(method) : method \in DOMAIN paths[path]}
                 = {ToUpper(api.seen[k].method) : k \in at(path)}
       /\ \A i \in 1..Len(api.seen) :
            Remains(api.seen, i) => OpOf(api.seen[i]) = Operation(api.seen[i])

\* A document from two endpoints with the same URL and the methods POST and
\* post, whose operations differ: it holds one operation.
C27_Witness ==
  /\ HasDoc
  /\ Len(api.seen) = 2
  /\ api.seen[1].url = api.seen[2].url
  /\ api.seen[1].method # api.seen[2].method
  /\ ToUpper(api.seen[1].method) = ToUpper(api.seen[2].method)
  /\ Operation(api.seen[1]) # Operation(api.seen[2])
  /\ DOMAIN api.doc.paths = {api.seen[2].url}
  /\ Cardinality(DOMAIN api.doc.paths[api.seen[2].url]) = 1

\* The JSON object that a sequence of members (key, value) is.
JsonObject(members) ==
  [key \in {members[k][1] : k \in 1..Len(members)} |->
     members[CHOOSE k \in 1..Len(members) : members[k][1] = key][2]]

\* The topic schema document served last, as a JSON value.
TopicDocument ==
  LET top == JsonObject(api.tresp.body)
  IN [mqtt_topics |-> [i \in 1..Len(top.mqtt_topics) |-> JsonObject(top.mqtt_topics[i])]]

\* C25: for every topic registry, GenerateMQTTTopicSchema serializes to a
\* JSON document {"mqtt_topics":[...]} holding one object per registered
\* topic, in registration order, with the fields topic, description, tag,
\* subscription taken from the descriptor (the handler-kind label is not
\* included); the one-entry registry {topic "devices/+/heartbeat", tag
\* "Device", subscription true} serializes to {"mqtt_topics":[{"topic":
\* "devices/+/heartbeat","description":"","tag":"Device","subscription":
\* true}]}.
C25_TopicSchema ==
  api.tresp.got = "response" =>
    /\ api.tresp.status = 200 /\ api.tresp.contentType = "text/json"
    /\ DOMAIN JsonObject(api.tresp.body) = {"mqtt_topics"}
    /\ Len(TopicDocument.mqtt_topics) = Len(api.tpub)
    /\ \A i \in 1..Len(api.tpub) :
         TopicDocument.mqtt_topics[i]
           = [topic |-> api.tpub[i].topic, description |-> api.tpub[i].description,
              tag |-> api.tpub[i].tag, subscription |-> api.tpub[i].subscription]
    /\ (Len(api.tpub) = 1 /\ api.tpub[1].topic = "devices/+/heartbeat") =>
         TopicDocument
           = [mqtt_topics |-> <<[topic |-> "devices/+/heartbeat", description |-> "",
                                 tag |-> "Device", subscription |-> TRUE]>>]

\* The topic schema was served for a registry of two different topics.
C25_Witness ==
  /\ api.tresp.got = "response"
  /\ Len(api.tpub) = 2
  /\ api.tpub[1].topic = "devices/+/heartbeat"
  /\ api.tpub[2].topic # api.tpub[1].topic
  /\ Len(api.tresp.body[1][2]) = 2

\* The document holds an operation at the URL and method of endpoint e.
Appears(e) ==
  /\ e.url \in DOMAIN api.doc.paths
  /\ ToLower(e.method) \in DOMAIN api.doc.paths[e.url]

\* The topics of the topic schema document served last.
TopicsServed == {TopicDocument.mqtt_topics[i].topic : i \in 1..Len(TopicDocument.mqtt_topics)}

\* C28: the document served by the endpoint that PublishAPI registers is
\* built on each request from the registry contents as they were when
\* PublishAPI was called: every endpoint added before PublishAPI appears in
\* every served document, and an endpoint added with Add after PublishAPI
\* never appears in any served document (the same holds for
\* PublishMQTTTopicSchema and the topic registry).
C28_PublishedSnapshot ==
  /\ api.published => SubSeq(api.urls, 1, Len(api.pub)) = api.pub
  /\ api.tpublished => SubSeq(api.topics, 1, Len(api.tpub)) = api.tpub
  /\ (api.resp.got = "response" /\ HasDoc) =>
       /\ \A i \in 1..Len(api.pub) : Appears(api.urls[i])
       /\ \A j \in (Len(api.pub) + 1)..Len(api.urls) :
            (\A i \in 1..Len(api.pub) :
               ~(api.urls[i].url = api.urls[j].url
                 /\ ToLower(api.urls[i].method) = ToLower(api.urls[j].method)))
              => ~Appears(api.urls[j])
       /\ api.doc.paths = Paths(api.pub, Len(api.pub))
  /\ api.tresp.got = "response" =>
       /\ Len(TopicDocument.mqtt_topics) = Len(api.tpub)
       /\ \A i \in 1..Len(api.tpub) :
            TopicDocument.mqtt_topics[i].topic = api.topics[i].topic
       /\ \A j \in (Len(api.tpub) + 1)..Len(api.topics) :
            (\A i \in 1..Len(api.tpub) : api.topics[i].topic # api.topics[j].topic)
              => api.topics[j].topic \notin TopicsServed

\* Both documents were served after an endpoint and a topic were added to
\* registries published with one entry.
C28_Witness ==
  /\ api.resp.got = "response" /\ HasDoc
  /\ Len(api.pub) = 1 /\ Len(api.urls) = 2
  /\ api.urls[2].url # api.urls[1].url
  /\ ~Appears(api.urls[2])
  /\ api.tresp.got = "response"
  /\ Len(api.tpub) = 1 /\ Len(api.topics) = 2
  /\ api.topics[2].topic # api.topics[1].topic

\* The Transaction calls of request r made, directly or through other
\* layers, inside the Transaction call c.
NestedIn(r, c) == {i \in CallsOf(r, "Tx") : i.unit # 0 /\ EnclosingUnit(r, i) = c.unit}

\* A unit that was committed is committed ever after.
CommittedStays ==
  \A u \in 1..Len(units) :
    units[u].status = "committed" => units'[u].status = "committed"

\* The unit of every Transaction call is opened on the handle given at build
\* time, and a nested call's unit is a unit of its own that is closed on the
\* inner outcome before the outer unit is closed.
NestedUnits ==
  \A r \in Reqs : \A c \in CallsOf(r, "Tx") :
    c.unit # 0 =>
      /\ units[c.unit].on = BaseDB
      /\ \A i \in NestedIn(r, c) :
           /\ i.unit # c.unit
           /\ units[i.unit].on = BaseDB
           /\ \A o \in Steps(i, "open") : i.tr[o].h = TxHandle(c.unit)
           /\ IsDone(i) =>
                /\ units[i.unit].status # "open"
                /\ units[i.unit].status \in {"committed", "commitFailed"}
                     <=> InnerOut(i).err = NIL
           /\ units[c.unit].status # "open" =>
                IsDone(i) /\ units[i.unit].status # "open"

\* C29: TransactionMiddleware always opens its unit of work on the handle
\* given at build time (db), never on a handle found in the incoming
\* context; when Transaction-wrapped handlers are nested, the inner call
\* runs in its own unit of work, which is committed or rolled back on the
\* inner outcome before the outer unit finishes, and an inner unit that
\* committed stays committed when the outer one is later rolled back.
C29_NestedTransactions == []NestedUnits /\ [][CommittedStays]_vars

\* An inner unit, opened under a context that carried the outer unit's
\* handle, is committed, and the outer unit was rolled back after its commit
\* failed.
C29_Witness ==
  \E r \in Reqs : \E c \in TxDone(r) : \E i \in NestedIn(r, c) :
    /\ units[i.unit].status = "committed"
    /\ units[i.unit].on = BaseDB
    /\ \E o \in Steps(i, "open") : i.tr[o].h = TxHandle(c.unit)
    /\ units[c.unit].status = "commitFailed"

\* The Retry calls whose count is zero or negative.
RetryNonPositive(r) == {c \in CallsOf(r, "Retry") : c.attempt <= 0}

\* C30: Retry(handler, N) for N <= 0 behaves as N = 1: the inner handler is
\* invoked exactly once, and the call returns that invocation's response
\* with a nil error, or a nil response with that invocation's error.
C30_RetryNonPositive ==
  \A r \in Reqs : \A c \in RetryNonPositive(r) :
    /\ Cardinality(InnerCalls(c)) <= 1
    /\ IsDone(c) =>
         /\ Cardinality(InnerCalls(c)) = 1
         /\ Cardinality(InnerRets(c)) = 1
         /\ c.out = IF InnerOut(c).err = NIL
                    THEN Pair(InnerOut(c).resp, NIL)
                    ELSE Pair(NIL, InnerOut(c).err)

\* A Retry built with a negative count has returned a nil response and the
\* error of its only invocation.
C30_Witness ==
  \E r \in Reqs : \E c \in RetryNonPositive(r) :
    /\ c.attempt < 0
    /\ IsDone(c)
    /\ Cardinality(InnerRets(c)) = 1
    /\ c.out.resp = NIL
    /\ c.out.err # NIL

====
